---- MODULE Spec2Model ----
(***************************************************************************)
(* A model of the ip_tracking application: the request middleware          *)
(* (middleware.py), the block_ip management command (block_ip.py), the     *)
(* admin actions (admin.py) and the periodic Celery tasks (tasks.py), over *)
(* the three tables of models.py and the Django cache.                     *)
(*                                                                         *)
(* Every handler is a process that advances one database or cache          *)
(* statement at a time.  Spec interleaves the processes freely; SpecSeq    *)
(* is the same next-state relation with handlers run one at a time.        *)
(***************************************************************************)
EXTENDS Integers, Sequences, FiniteSets, Bags, TLC

VARIABLES
    now,          \* the clock, in seconds (timezone.now(), time.time())
    BlockedIP,    \* the BlockedIP table: ip_address -> sequence of rows' is_active
    SuspiciousIP, \* the SuspiciousIP table: sequence of rows, id = index
    RequestLog,   \* the RequestLog table: a bag of rows
    cache,        \* the Django cache: key -> [present, value, exp]
    req,          \* process_request calls in flight, per worker
    cli,          \* the block_ip management command in flight
    adm,          \* the admin action block_selected_ips in flight
    auto,         \* auto_block_suspicious_ips runs in flight, per worker
    det,          \* detect_anomalies runs in flight, per worker
    active,       \* history: per address, since when its entry is active
    lastOp,       \* history: per address, the last operation that returned
    ret,          \* history: what the step just taken returned, if it returned
    sched,        \* how handlers are scheduled: "any" order, or "one" at a time
    lookup        \* history: per public address, its last geolocation lookup

vars == <<now, BlockedIP, SuspiciousIP, RequestLog, cache, req, cli, adm,
          auto, det, active, lastOp, ret, sched, lookup>>

None == "None"

----------------------------------------------------------------------------
(* Program constants                                                       *)

BLOCKED_IP_CACHE_PREFIX == "blocked_ip_"
GEOLOCATION_CACHE_PREFIX == "geolocation_"
BLOCKED_IP_CACHE_TIMEOUT == 300
GEOLOCATION_CACHE_TIMEOUT == 86400
GEOLOCATION_ERROR_TIMEOUT == 3600
AUTO_BLOCK_WINDOW == 86400
AUTO_BLOCK_MIN_FLAGS == 3
DETECT_WINDOW == 3600
DEDUP_WINDOW == 86400
HIGH_VOLUME_THRESHOLD == 100
SENSITIVE_PATH_THRESHOLD == 20
LOGIN_THRESHOLD == 10
LOG_RETENTION == 2592000

----------------------------------------------------------------------------
(* Bounds and input sets                                                   *)

\* Clock advances per behaviour.
MaxTicks == 2
\* RequestLog rows per behaviour.
MaxLog == 1

\* The clock advances by half a blocked-decision TTL, so that ages below,
\* equal to and above the TTL all occur.
TickStep == BLOCKED_IP_CACHE_TIMEOUT \div 2
StartTime == AUTO_BLOCK_WINDOW

PrivateAddrs == {"10.0.0.5", "192.168.1.9"}
PublicAddrs == {"8.8.8.8"}
\* More of the addresses is_private_ip takes for local: the ends of
\* 172.16.0.0/12, the loopback literals, and no address ("" and None).
LocalAddrs == {"172.16.0.1", "172.31.255.254", "127.0.0.1", "::1",
               "localhost", "", None}
Addrs == PrivateAddrs \cup PublicAddrs
\* The address requests and operators use in the gate specifications, and
\* the addresses of the registry specifications.
GateAddrs == {"10.0.0.5"}
RegAddrs == PrivateAddrs

Workers == {"w1", "w2"}
AutoJobs == {"e1", "e2"}
DetJobs == {"d1", "d2"}

\* Paths are sequences of characters.
HomePath == <<"/">>
AdminPath == <<"/", "a", "d", "m", "i", "n">>
LoginPath == <<"/", "l", "o", "g", "i", "n">>
RegisterPath == <<"/", "r", "e", "g", "i", "s", "t", "e", "r">>
ApiPath == <<"/", "a", "p", "i">>
GatePaths == {HomePath}

----------------------------------------------------------------------------
(* The cache (django.core.cache): get / set / delete with per-key expiry   *)

CacheKeys == {BLOCKED_IP_CACHE_PREFIX, GEOLOCATION_CACHE_PREFIX} \X Addrs
NoEntry == [present |-> FALSE, value |-> None, exp |-> 0]

\* cache.get(key): the value, or a miss (None) when absent or expired.
cache_get(c, key, t) ==
    IF c[key].present /\ t < c[key].exp
    THEN [hit |-> TRUE, value |-> c[key].value]
    ELSE [hit |-> FALSE, value |-> None]

\* cache.set(key, value, timeout)
cache_set(c, key, value, timeout, t) ==
    [c EXCEPT ![key] = [present |-> TRUE, value |-> value, exp |-> t + timeout]]

\* cache.delete(key)
cache_delete(c, key) == [c EXCEPT ![key] = NoEntry]

\* The backend drops an entry once its expiry time is reached.
cache_expire(c, t) ==
    [k \in DOMAIN c |-> IF c[k].present /\ c[k].exp <= t THEN NoEntry ELSE c[k]]

BlockedKey(ip) == <<BLOCKED_IP_CACHE_PREFIX, ip>>
GeoKey(ip) == <<GEOLOCATION_CACHE_PREFIX, ip>>

----------------------------------------------------------------------------
(* The BlockedIP table                                                     *)

\* BlockedIP.objects.filter(ip_address=ip, is_active=True).exists()
ActiveExists(tbl, ip) == \E i \in 1..Len(tbl[ip]) : tbl[ip][i]

\* The unique=True constraint on ip_address: an INSERT of a second row for
\* the address raises IntegrityError.
UniqueViolation(tbl, ip) == Len(tbl[ip]) > 0

\* INSERT of an active row.
InsertActive(tbl, ip) == [tbl EXCEPT ![ip] = Append(@, TRUE)]

\* UPDATE ... SET is_active = v for the rows of the addresses in S.
SetActive(tbl, S, v) ==
    [ip \in DOMAIN tbl |->
        IF ip \in S THEN [i \in 1..Len(tbl[ip]) |-> v] ELSE tbl[ip]]

\* history: since when each address is actively blocked, whether the cache
\* held a live "not blocked" decision when the entry became active, and
\* until when the address was last actively blocked (-1: never, or it is).
ActiveAfter(tbl) ==
    [ip \in Addrs |->
        IF ActiveExists(tbl, ip)
        THEN IF ActiveExists(BlockedIP, ip)
             THEN active[ip]
             ELSE [since |-> now,
                   stale |-> LET g == cache_get(cache, BlockedKey(ip), now)
                             IN g.hit /\ g.value = FALSE,
                   until |-> -1]
        ELSE [since |-> -1, stale |-> FALSE,
              until |-> IF ActiveExists(BlockedIP, ip) THEN now
                        ELSE active[ip].until]]

\* history: the address has an active entry, or had one at some time in
\* the 300 seconds up to now.
BlockedOfLate(ip) ==
    \/ ActiveExists(BlockedIP, ip)
    \/ /\ active[ip].until >= 0
       /\ now - active[ip].until <= BLOCKED_IP_CACHE_TIMEOUT

----------------------------------------------------------------------------
(* History records                                                         *)

NoRet == [kind |-> "none", ip |-> None, resp |-> None, logged |-> FALSE,
          hit |-> FALSE, live |-> FALSE, late |-> FALSE, fresh |-> FALSE,
          after |-> None, oflate |-> FALSE,
          n |-> 0, set |-> {}, elig |-> {}, second |-> FALSE, prev |-> -1,
          begun |-> -1, held |-> {},
          geo |-> <<"None", "None">>, called |-> FALSE, raised |-> FALSE,
          ttl |-> 0, ops |-> 0, outcome |-> None, fault |-> None,
          prior |-> [at |-> -1, result |-> <<"None", "None">>, ttl |-> 0],
          write |-> "none", meta |-> [REMOTE_ADDR |-> <<>>], owed |-> {},
          base |-> 0, clean |-> {}]

NoOp == "other"

----------------------------------------------------------------------------
(* Scheduling                                                              *)

\* The handlers in flight.
InFlight(r, c, a, au, d) ==
    Cardinality({w \in Workers : r[w].pc # "idle"})
    + (IF c.pc # "idle" THEN 1 ELSE 0)
    + (IF a.pc # "idle" THEN 1 ELSE 0)
    + Cardinality({j \in AutoJobs : au[j].pc # "idle"})
    + Cardinality({j \in DetJobs : d[j].pc # "idle"})


\* A handler may be called: always when handlers interleave, and only when
\* none is in flight when they run one at a time.
CanStart == sched = "any" \/ InFlight(req, cli, adm, auto, det) = 0

----------------------------------------------------------------------------
(* middleware.py: IPTrackingMiddleware                                     *)

\* ip_address.split("."), each part given with int(part) where it parses
\* (-1 where int() raises ValueError).
SplitDot(ip) ==
    CASE ip = "10.0.0.5"    -> <<10, 0, 0, 5>>
      [] ip = "192.168.1.9" -> <<192, 168, 1, 9>>
      [] ip = "8.8.8.8"     -> <<8, 8, 8, 8>>
      [] ip = "172.16.0.1"  -> <<172, 16, 0, 1>>
      [] ip = "172.31.255.254" -> <<172, 31, 255, 254>>
      [] ip = "127.0.0.1"   -> <<127, 0, 0, 1>>
      [] OTHER              -> <<-1>>

is_private_ip_narrow(ip) ==
    IF ip = None \/ ip = ""
    THEN TRUE
    ELSE IF ip \in {"127.0.0.1", "::1", "localhost"}
    THEN TRUE
    ELSE LET parts == SplitDot(ip) IN
         IF Len(parts) = 4 /\ parts[1] >= 0 /\ parts[2] >= 0
         THEN \/ parts[1] = 10
              \/ parts[1] = 172 /\ 16 <= parts[2] /\ parts[2] < 31
              \/ parts[1] = 192 /\ parts[2] = 168
         ELSE FALSE

is_private_ip(ip) ==
    IF ip = None \/ ip = ""
    THEN TRUE
    ELSE IF ip \in {"127.0.0.1", "::1", "localhost"}
    THEN TRUE
    ELSE LET parts == SplitDot(ip) IN
         IF Len(parts) = 4 /\ parts[1] >= 0 /\ parts[2] >= 0
         THEN \/ parts[1] = 10
              \/ parts[1] = 172 /\ 16 <= parts[2] /\ parts[2] <= 31
              \/ parts[1] = 192 /\ parts[2] = 168
         ELSE FALSE

\* What requests.get(url, timeout=2) and response.json() can do: a 200
\* answer with status "success", a 200 answer with another status, a 200
\* answer whose JSON object has no status, an answer with another status
\* code, requests.exceptions.Timeout, another exception of requests.get,
\* and a body response.json() or data.get fail on.
GeoOutcomes == {"success", "fail_status", "no_status", "non_200", "timeout",
                "error", "bad_json"}
\* The answers that leave the try block by its last statements.
GeoAnswers == {"success", "fail_status", "no_status", "non_200"}
\* What the cache backend can do: work, raise in cache.get, raise in every
\* cache.set, or raise in the first cache.set of the call only.
CacheFaults == {"none", "get", "set", "set_first"}
\* Neither the service nor the cache is asked about a private address: one
\* outcome stands for all.
OutcomesFor(ip) == IF is_private_ip(ip) THEN {"success"} ELSE GeoOutcomes
FaultsFor(ip) == IF is_private_ip(ip) THEN {"none"} ELSE CacheFaults
GeoFound == <<"US", "Boston">>
GeoUnresolved == <<None, None>>

\* What a call of get_geolocation gives: the pair returned, the cache
\* afterwards, whether the service was called, whether the call raised
\* instead of returning, the timeout of the entry it stored (0: none), and
\* the number of cache operations it began.
GeoReturn(result, c, called, ttl, ops) ==
    [result |-> result, cache |-> c, called |-> called, raised |-> FALSE,
     ttl |-> ttl, ops |-> ops]
GeoRaise(c, called, ops) ==
    [result |-> GeoUnresolved, cache |-> c, called |-> called, raised |-> TRUE,
     ttl |-> 0, ops |-> ops]

\* The timeout of the entry stored after the service answered `outcome`
\* and the first cache.set worked.
GeoTimeout(outcome) ==
    IF outcome \in GeoAnswers
    THEN GEOLOCATION_CACHE_TIMEOUT
    ELSE GEOLOCATION_ERROR_TIMEOUT

\* The except handlers: cache.set(cache_key, (None, None), 3600), outside
\* any try.
GeoHandler_unstored(c, ip, t, failing, ops) ==
    IF failing
    THEN GeoRaise(c, TRUE, ops + 1)
    ELSE GeoReturn(GeoUnresolved, c, TRUE, GEOLOCATION_ERROR_TIMEOUT, ops + 1)
GeoHandler(c, ip, t, failing, ops) ==
    IF failing
    THEN GeoRaise(c, TRUE, ops + 1)
    ELSE GeoReturn(GeoUnresolved,
                   cache_set(c, GeoKey(ip), GeoUnresolved,
                             GEOLOCATION_ERROR_TIMEOUT, t),
                   TRUE, GEOLOCATION_ERROR_TIMEOUT, ops + 1)

\* get_geolocation(ip_address) with the external service answering
\* `outcome` and the cache behaving as `fault`.
get_geolocation(c, ip, t, outcome, fault) ==
    IF is_private_ip(ip)
    THEN GeoReturn(GeoUnresolved, c, FALSE, 0, 0)
    ELSE IF fault = "get"
    THEN GeoRaise(c, FALSE, 1)
    ELSE LET cached_data == cache_get(c, GeoKey(ip), t) IN
         IF cached_data.hit
         THEN GeoReturn(cached_data.value, c, FALSE, 0, 1)
         ELSE IF outcome \in GeoAnswers
         THEN \* the cache.set inside the try block
              IF fault = "none"
              THEN LET result == IF outcome = "success" THEN GeoFound
                                 ELSE GeoUnresolved
                   IN GeoReturn(result,
                                cache_set(c, GeoKey(ip), result,
                                          GeoTimeout(outcome), t),
                                TRUE, GeoTimeout(outcome), 2)
              ELSE \* it raised: except Exception
                   GeoHandler(c, ip, t, fault = "set", 2)
         ELSE GeoHandler(c, ip, t, fault # "none", 1)

\* history: the last call of get_geolocation for a public address that
\* asked the service and stored what it returned.
NoLookup == [at |-> -1, result |-> GeoUnresolved, ttl |-> 0]
NoLookups == [ip \in PublicAddrs |-> NoLookup]
LookupOf(ip) == IF ip \in PublicAddrs THEN lookup[ip] ELSE NoLookup

\* A call of process_request: where it is, its ip_address and path, the
\* is_blocked it found and whether the cache gave it.  history: live, the
\* address's entry has been active since the call began; and with it late,
\* it had been active for a whole blocked-decision TTL when the call began,
\* and fresh, the last operation on the address that had returned when the
\* call began was a block_ip; oflate, the address was actively blocked, or
\* had been in the preceding 300 seconds, when the call got its is_blocked.
ReqIdle == [pc |-> "idle", ip |-> None, path |-> <<>>, is_blocked |-> FALSE,
            hit |-> FALSE, live |-> FALSE, late |-> FALSE, fresh |-> FALSE,
            oflate |-> FALSE, meta |-> [REMOTE_ADDR |-> <<>>]]

LogRows == BagCardinality(RequestLog)

\* request.META: a dictionary from keys to strings, a string being the
\* sequence of its tokens (addresses, "," and " ").  A header X-Forwarded-For
\* is under HTTP_X_FORWARDED_FOR, a header X-Forward-For under
\* HTTP_X_FORWARD_FOR.
MetaGet(META, key) == IF key \in DOMAIN META THEN META[key] ELSE <<>>

\* value.split(",")[0]
FirstEntry(tokens) ==
    LET commas == {i \in 1..Len(tokens) : tokens[i] = ","} IN
    IF commas = {} THEN tokens
    ELSE SubSeq(tokens, 1, (CHOOSE i \in commas : \A j \in commas : i <= j) - 1)

\* value.strip()
Strip(tokens) ==
    LET solid == {i \in 1..Len(tokens) : tokens[i] # " "} IN
    IF solid = {} THEN <<>>
    ELSE SubSeq(tokens, CHOOSE i \in solid : \A j \in solid : i <= j,
                        CHOOSE i \in solid : \A j \in solid : i >= j)

\* The string of a sequence of at most one token.
Join(tokens) == IF tokens = <<>> THEN "" ELSE tokens[1]

\* The first entry of the list under `key`, or REMOTE_ADDR where there is
\* none or it is empty.
client_ip(META, key) ==
    LET x_forwarded_for == MetaGet(META, key) IN
    IF x_forwarded_for # <<>>
    THEN Join(Strip(FirstEntry(x_forwarded_for)))
    ELSE Join(MetaGet(META, "REMOTE_ADDR"))

\* middleware.py: get_client_ip(request)
get_client_ip(META) == client_ip(META, "HTTP_X_FORWARD_FOR")
\* views.py: get_client_ip(request)
view_get_client_ip(META) == client_ip(META, "HTTP_X_FORWARDED_FOR")

\* process_request begins at worker w with ip_address = ip, for a request
\* with the given META.
ReqBegin(w, ip, path, META) ==
    /\ req[w].pc = "idle"
    /\ CanStart
    /\ req' = [req EXCEPT ![w] =
                 [pc |-> "cache_get", ip |-> ip, path |-> path,
                  is_blocked |-> FALSE, hit |-> FALSE, oflate |-> FALSE,
                  live |-> ActiveExists(BlockedIP, ip),
                  late |-> /\ ActiveExists(BlockedIP, ip)
                           /\ now >= active[ip].since + BLOCKED_IP_CACHE_TIMEOUT,
                  fresh |-> /\ ActiveExists(BlockedIP, ip)
                            /\ lastOp[ip] = "block_ip",
                  meta |-> META]]
    /\ ret' = NoRet
    /\ UNCHANGED <<now, BlockedIP, SuspiciousIP, RequestLog, cache, cli, adm,
                   auto, det, active, lastOp, sched, lookup>>

\* A request for `ip` arrives at worker w: a direct connection from ip
\* without forwarding headers (get_client_ip gives ip).
ReqStart(w, ip, path) == ReqBegin(w, ip, path, [REMOTE_ADDR |-> <<ip>>])

\* A request with META arrives at worker w.
ReqArrive(w, META, path) == ReqBegin(w, get_client_ip(META), path, META)

\* The response of process_request: 403, or None (the request goes on).
ReqReturn(w, resp, logged) ==
    [NoRet EXCEPT !.kind = "process_request", !.ip = req[w].ip, !.resp = resp,
                  !.logged = logged, !.hit = req[w].hit,
                  !.live = req[w].live, !.late = req[w].late,
                  !.fresh = req[w].fresh, !.after = lastOp[req[w].ip],
                  !.oflate = req[w].oflate, !.meta = req[w].meta]

\* is_ip_blocked: cached_result = cache.get(cache_key)
ReqCacheGet(w) ==
    /\ req[w].pc = "cache_get"
    /\ LET cached_result == cache_get(cache, BlockedKey(req[w].ip), now) IN
       IF cached_result.hit
       THEN req' = [req EXCEPT ![w].is_blocked = cached_result.value,
                               ![w].hit = TRUE,
                               ![w].oflate = BlockedOfLate(req[w].ip),
                               ![w].pc = "decide"]
       ELSE req' = [req EXCEPT ![w].pc = "db_read"]
    /\ ret' = NoRet
    /\ UNCHANGED <<now, BlockedIP, SuspiciousIP, RequestLog, cache, cli, adm,
                   auto, det, active, lastOp, sched, lookup>>

\* is_ip_blocked: is_blocked = BlockedIP.objects.filter(...).exists()
ReqDbRead(w) ==
    /\ req[w].pc = "db_read"
    /\ req' = [req EXCEPT ![w].is_blocked = ActiveExists(BlockedIP, req[w].ip),
                          ![w].oflate = BlockedOfLate(req[w].ip),
                          ![w].pc = "cache_set"]
    /\ ret' = NoRet
    /\ UNCHANGED <<now, BlockedIP, SuspiciousIP, RequestLog, cache, cli, adm,
                   auto, det, active, lastOp, sched, lookup>>

\* is_ip_blocked: cache.set(cache_key, is_blocked, BLOCKED_IP_CACHE_TIMEOUT)
ReqCacheSet(w) ==
    /\ req[w].pc = "cache_set"
    /\ cache' = cache_set(cache, BlockedKey(req[w].ip), req[w].is_blocked,
                          BLOCKED_IP_CACHE_TIMEOUT, now)
    /\ req' = [req EXCEPT ![w].pc = "decide"]
    /\ ret' = NoRet
    /\ UNCHANGED <<now, BlockedIP, SuspiciousIP, RequestLog, adm, cli,
                   auto, det, active, lastOp, sched, lookup>>

ReqForbidden_logged(w) ==
    /\ req[w].pc = "decide"
    /\ req[w].is_blocked
    /\ LET ip == req[w].ip
           geo == get_geolocation(cache, ip, now, "success", "none")
       IN /\ cache' = geo.cache
          /\ RequestLog' =
               IF LogRows < MaxLog
               THEN RequestLog (+) SetToBag({[ip_address |-> ip,
                                              path |-> req[w].path,
                                              timestamp |-> now,
                                              country |-> geo.result[1],
                                              city |-> geo.result[2]]})
               ELSE RequestLog
    /\ req' = [req EXCEPT ![w] = ReqIdle]
    /\ ret' = ReqReturn(w, "403", FALSE)
    /\ lastOp' = [lastOp EXCEPT ![req[w].ip] = NoOp]
    /\ UNCHANGED <<now, BlockedIP, SuspiciousIP, cli, adm,
                   auto, det, active, sched, lookup>>

\* process_request: if is_ip_blocked(ip): return HttpResponseForbidden
ReqForbidden(w) ==
    /\ req[w].pc = "decide"
    /\ req[w].is_blocked
    /\ req' = [req EXCEPT ![w] = ReqIdle]
    /\ ret' = ReqReturn(w, "403", FALSE)
    /\ lastOp' = [lastOp EXCEPT ![req[w].ip] = NoOp]
    /\ UNCHANGED <<now, BlockedIP, SuspiciousIP, RequestLog, cache, cli, adm,
                   auto, det, active, sched, lookup>>

\* process_request after get_geolocation and RequestLog.objects.create:
\* an exception of get_geolocation propagates, one of the create is caught.
AdmitResponse_uncaught(raised, saved) == IF raised \/ ~saved THEN "error" ELSE None
AdmitResponse(raised, saved) == IF raised THEN "error" ELSE None

\* process_request: get_geolocation, then RequestLog.objects.create inside
\* try/except; `saved` is whether the INSERT succeeded (ip_address is NOT
\* NULL).
ReqAdmit(w, outcome, fault, saved) ==
    /\ req[w].pc = "decide"
    /\ ~req[w].is_blocked
    /\ saved => LogRows < MaxLog /\ req[w].ip # None
    /\ LET ip == req[w].ip
           geo == get_geolocation(cache, ip, now, outcome, fault)
       IN
       /\ geo.raised => ~saved
       /\ cache' = geo.cache
       /\ RequestLog' =
            IF saved
            THEN RequestLog (+) SetToBag({[ip_address |-> ip,
                                           path |-> req[w].path,
                                           timestamp |-> now,
                                           country |-> geo.result[1],
                                           city |-> geo.result[2]]})
            ELSE RequestLog
       /\ lookup' = IF ip \in PublicAddrs /\ geo.called /\ ~geo.raised
                    THEN [lookup EXCEPT ![ip] = [at |-> now,
                                                 result |-> geo.result,
                                                 ttl |-> geo.ttl]]
                    ELSE lookup
       /\ ret' = [ReqReturn(w, AdmitResponse(geo.raised, saved), saved)
                    EXCEPT !.geo = geo.result, !.called = geo.called,
                           !.raised = geo.raised, !.ttl = geo.ttl,
                           !.ops = geo.ops, !.outcome = outcome,
                           !.fault = fault, !.prior = LookupOf(ip),
                           !.write = IF geo.raised THEN "none"
                                     ELSE IF saved THEN "ok" ELSE "failed"]
    /\ req' = [req EXCEPT ![w] = ReqIdle]
    /\ lastOp' = [lastOp EXCEPT ![req[w].ip] = NoOp]
    /\ UNCHANGED <<now, BlockedIP, SuspiciousIP, cli, adm, auto, det, active, sched>>

----------------------------------------------------------------------------
(* management/commands/block_ip.py: Command                                *)

CliIdle == [pc |-> "idle", op |-> None, ip |-> None]

\* history: a deactivation of the entries of the addresses in S reaches the
\* requests in flight for them.
Deactivated(S) ==
    [w \in Workers |-> IF req[w].ip \in S THEN [req[w] EXCEPT !.live = FALSE, !.late = FALSE, !.fresh = FALSE]
                       ELSE req[w]]

\* get_or_create(ip_address=ip, defaults={is_active: True}), then, for an
\* inactive row found, is_active = True and save().
BlockWrite(tbl, ip) ==
    IF Len(tbl[ip]) = 0 THEN InsertActive(tbl, ip) ELSE SetActive(tbl, {ip}, TRUE)

\* block_ip(ip_address, reason) up to the call of clear_ip_cache.
CliBlockDb(ip) ==
    /\ cli.pc = "idle"
    /\ CanStart
    /\ IF Len(BlockedIP[ip]) > 1
       THEN \* get_or_create raises MultipleObjectsReturned: CommandError
            /\ ret' = [NoRet EXCEPT !.kind = "block_ip", !.ip = ip, !.resp = "error"]
            /\ UNCHANGED <<BlockedIP, active, cli, sched, lookup>>
       ELSE /\ BlockedIP' = BlockWrite(BlockedIP, ip)
            /\ active' = ActiveAfter(BlockedIP')
            /\ cli' = [pc |-> "clear", op |-> "block_ip", ip |-> ip]
            /\ ret' = NoRet
    /\ UNCHANGED <<now, SuspiciousIP, RequestLog, cache, req, adm, auto, det, lastOp, sched, lookup>>

\* An unblock that sets is_active and does not save.
UnblockWrite_unsaved(tbl, ip) == tbl

\* blocked_ip.is_active = False; blocked_ip.save()
UnblockWrite(tbl, ip) == SetActive(tbl, {ip}, FALSE)

\* unblock_ip(ip_address) up to the call of clear_ip_cache; DoesNotExist
\* returns with a warning and leaves the cache alone.
CliUnblockDb(ip) ==
    /\ cli.pc = "idle"
    /\ CanStart
    /\ IF Len(BlockedIP[ip]) # 1
       THEN /\ ret' = [NoRet EXCEPT !.kind = "unblock_ip", !.ip = ip,
                          !.resp = IF Len(BlockedIP[ip]) = 0 THEN "not_found"
                                   ELSE "error"]
            /\ lastOp' = [lastOp EXCEPT ![ip] = NoOp]
            /\ UNCHANGED <<BlockedIP, active, cli, req, sched, lookup>>
       ELSE /\ BlockedIP' = UnblockWrite(BlockedIP, ip)
            /\ active' = ActiveAfter(BlockedIP')
            /\ cli' = [pc |-> "clear", op |-> "unblock_ip", ip |-> ip]
            /\ req' = Deactivated({ip})
            /\ ret' = NoRet
            /\ UNCHANGED lastOp
    /\ UNCHANGED <<now, SuspiciousIP, RequestLog, cache, adm, auto, det, sched, lookup>>

\* A clear_ip_cache that deletes nothing.
clear_ip_cache_skipped(c, ip) == c

\* clear_ip_cache(ip_address): cache.delete("blocked_ip_" + ip_address)
clear_ip_cache(c, ip) == cache_delete(c, BlockedKey(ip))

\* The command's last statement; it returns.
CliClear ==
    /\ cli.pc = "clear"
    /\ cache' = clear_ip_cache(cache, cli.ip)
    /\ cli' = CliIdle
    /\ ret' = [NoRet EXCEPT !.kind = cli.op, !.ip = cli.ip, !.resp = "ok",
                            !.after = lastOp[cli.ip]]
    /\ lastOp' = [lastOp EXCEPT ![cli.ip] =
                    IF cli.op = "block_ip" THEN "block_ip"
                    ELSE IF lastOp[cli.ip] = "block_ip" THEN "block_ip;unblock_ip"
                    ELSE NoOp]
    /\ UNCHANGED <<now, BlockedIP, SuspiciousIP, RequestLog, req, adm, auto,
                   det, active, sched, lookup>>

----------------------------------------------------------------------------
(* admin.py: BlockedIPAdmin, SuspiciousIPAdmin                             *)

HasRow(ip) == Len(BlockedIP[ip]) > 0

\* activate_blocks(request, queryset): queryset.update(is_active=True)
AdminActivate(S) ==
    /\ CanStart
    /\ S # {} /\ \A ip \in S : HasRow(ip)
    /\ BlockedIP' = SetActive(BlockedIP, S, TRUE)
    /\ active' = ActiveAfter(BlockedIP')
    /\ lastOp' = [ip \in Addrs |-> IF ip \in S THEN NoOp ELSE lastOp[ip]]
    /\ ret' = NoRet
    /\ UNCHANGED <<now, SuspiciousIP, RequestLog, cache, req, cli, adm, auto, det, sched, lookup>>

\* deactivate_blocks(request, queryset): queryset.update(is_active=False)
AdminDeactivate(S) ==
    /\ CanStart
    /\ S # {} /\ \A ip \in S : HasRow(ip)
    /\ BlockedIP' = SetActive(BlockedIP, S, FALSE)
    /\ active' = ActiveAfter(BlockedIP')
    /\ req' = Deactivated(S)
    /\ lastOp' = [ip \in Addrs |-> IF ip \in S THEN NoOp ELSE lastOp[ip]]
    /\ ret' = NoRet
    /\ UNCHANGED <<now, SuspiciousIP, RequestLog, cache, cli, adm, auto, det, sched, lookup>>

FlagIds == 1..Len(SuspiciousIP)
UnresolvedOf(tbl, ip) ==
    {i \in 1..Len(tbl) : tbl[i].ip_address = ip /\ ~tbl[i].is_resolved}

AdmIdle == [pc |-> "idle", todo |-> {}, blocked_count |-> 0]

\* block_selected_ips(request, queryset) is called with the selected flags.
AdmStart(Q) ==
    /\ adm.pc = "idle"
    /\ CanStart
    /\ Q # {} /\ Q \subseteq FlagIds
    /\ adm' = [pc |-> "loop", todo |-> Q, blocked_count |-> 0]
    /\ ret' = NoRet
    /\ UNCHANGED <<now, BlockedIP, SuspiciousIP, RequestLog, cache, req, cli,
                   auto, det, active, lastOp, sched, lookup>>

\* The queryset is iterated newest first (Meta.ordering = ["-flagged_at"]).
Newest(tbl, Q) == {i \in Q : \A j \in Q : tbl[j].flagged_at <= tbl[i].flagged_at}

\* One iteration of the loop: the check, BlockedIP.objects.create and the
\* flag's save().  IntegrityError leaves the action, unhandled.
AdmFlag(i) ==
    /\ adm.pc = "loop"
    /\ i \in Newest(SuspiciousIP, adm.todo)
    /\ LET ip == SuspiciousIP[i].ip_address
           create == ~ActiveExists(BlockedIP, ip)
       IN IF create /\ UniqueViolation(BlockedIP, ip)
          THEN /\ adm' = AdmIdle
               /\ ret' = [NoRet EXCEPT !.kind = "block_selected_ips", !.ip = ip,
                                       !.resp = "IntegrityError"]
               /\ UNCHANGED <<BlockedIP, SuspiciousIP, active, sched, lookup>>
          ELSE /\ BlockedIP' = IF create THEN InsertActive(BlockedIP, ip)
                               ELSE BlockedIP
               /\ active' = ActiveAfter(BlockedIP')
               /\ SuspiciousIP' = [SuspiciousIP EXCEPT ![i].is_resolved = TRUE]
               /\ adm' = [adm EXCEPT !.todo = @ \ {i},
                                     !.blocked_count = @ + (IF create THEN 1 ELSE 0)]
               /\ ret' = NoRet
    /\ lastOp' = [lastOp EXCEPT ![SuspiciousIP[i].ip_address] = NoOp]
    /\ UNCHANGED <<now, RequestLog, cache, req, cli, auto, det, sched, lookup>>

\* The loop is over: message_user, return.
AdmReturn ==
    /\ adm.pc = "loop"
    /\ adm.todo = {}
    /\ adm' = AdmIdle
    /\ ret' = [NoRet EXCEPT !.kind = "block_selected_ips", !.resp = "ok",
                            !.n = adm.blocked_count]
    /\ UNCHANGED <<now, BlockedIP, SuspiciousIP, RequestLog, cache, req, cli,
                   auto, det, active, lastOp, sched, lookup>>

----------------------------------------------------------------------------
(* tasks.py: auto_block_suspicious_ips                                     *)

AutoIdle == [pc |-> "idle", items |-> {}, ip |-> None, flag_count |-> 0,
             blocked_count |-> 0, newly |-> {}, elig |-> {}, second |-> FALSE,
             owed |-> {}]

\* SuspiciousIP.objects.filter(flagged_at__gte=t, is_resolved=False)
\*     .values("ip_address").annotate(flag_count=Count("id"))
\*     .filter(flag_count__gte=3): the set of <<ip_address, flag_count>>.
suspicious_ips(tbl, t) ==
    LET count(ip) == Cardinality({i \in 1..Len(tbl) :
                        /\ tbl[i].ip_address = ip
                        /\ tbl[i].flagged_at >= t
                        /\ ~tbl[i].is_resolved})
    IN {<<ip, count(ip)>> : ip \in {a \in Addrs : count(a) >= AUTO_BLOCK_MIN_FLAGS}}

\* The task starts: twenty_four_hours_ago is taken and the query is run as
\* the loop begins.
AutoStart(j) ==
    /\ auto[j].pc = "idle"
    /\ CanStart
    /\ LET items == suspicious_ips(SuspiciousIP, now - AUTO_BLOCK_WINDOW) IN
       auto' = [auto EXCEPT ![j] =
                  [AutoIdle EXCEPT !.pc = "loop", !.items = items,
                      !.elig = {it[1] : it \in {x \in items :
                                                ~ActiveExists(BlockedIP, x[1])}},
                      !.second = (ret.kind = "auto_block" /\ ret.resp = "ok"),
                      !.owed = IF ret.kind = "auto_block" /\ ret.resp = "aborted"
                               THEN ret.elig ELSE {}]]
    /\ ret' = NoRet
    /\ UNCHANGED <<now, BlockedIP, SuspiciousIP, RequestLog, cache, req, cli,
                   adm, det, active, lastOp, sched, lookup>>

\* The next item of the loop (the query sets no order) and its
\* already_blocked check.
AutoCheck(j, item) ==
    /\ auto[j].pc = "loop"
    /\ item \in auto[j].items
    /\ LET already_blocked == ActiveExists(BlockedIP, item[1]) IN
       auto' = [auto EXCEPT ![j].items = @ \ {item},
                            ![j].ip = IF already_blocked THEN None ELSE item[1],
                            ![j].flag_count = IF already_blocked THEN 0 ELSE item[2],
                            ![j].pc = IF already_blocked THEN "loop" ELSE "create"]
    /\ ret' = NoRet
    /\ UNCHANGED <<now, BlockedIP, SuspiciousIP, RequestLog, cache, req, cli,
                   adm, det, active, lastOp, sched, lookup>>

\* BlockedIP.objects.create(ip_address=..., is_active=True): the row is
\* inserted, or the unique constraint raises IntegrityError.
BlockedIP_create(tbl, ip) ==
    IF UniqueViolation(tbl, ip)
    THEN [ok |-> FALSE, tbl |-> tbl]
    ELSE [ok |-> TRUE, tbl |-> InsertActive(tbl, ip)]

\* The create of the loop body; the exception is not handled and ends the task.
AutoCreate(j) ==
    /\ auto[j].pc = "create"
    /\ LET r == BlockedIP_create(BlockedIP, auto[j].ip) IN
       /\ BlockedIP' = r.tbl
       /\ active' = ActiveAfter(BlockedIP')
       /\ IF r.ok
          THEN /\ auto' = [auto EXCEPT ![j].pc = "resolve"]
               /\ ret' = NoRet
          ELSE /\ auto' = [auto EXCEPT ![j] = AutoIdle]
               /\ ret' = [NoRet EXCEPT !.kind = "auto_block", !.ip = auto[j].ip,
                                       !.resp = "IntegrityError",
                                       !.n = auto[j].blocked_count,
                                       !.set = auto[j].newly,
                                       !.elig = auto[j].elig]
    /\ UNCHANGED <<now, SuspiciousIP, RequestLog, cache, req, cli, adm, det, lastOp, sched, lookup>>

\* SuspiciousIP.objects.filter(ip_address=ip, is_resolved=False)
\*     .update(is_resolved=True, ...)
ResolveFlags(tbl, ip) ==
    [i \in 1..Len(tbl) |->
        IF tbl[i].ip_address = ip /\ ~tbl[i].is_resolved
        THEN [tbl[i] EXCEPT !.is_resolved = TRUE]
        ELSE tbl[i]]

\* The update of the loop body, and blocked_count += 1.
AutoResolve(j) ==
    /\ auto[j].pc = "resolve"
    /\ SuspiciousIP' = ResolveFlags(SuspiciousIP, auto[j].ip)
    /\ auto' = [auto EXCEPT ![j].pc = "loop",
                            ![j].blocked_count = @ + 1,
                            ![j].newly = @ \cup {auto[j].ip},
                            ![j].ip = None,
                            ![j].flag_count = 0]
    /\ ret' = NoRet
    /\ UNCHANGED <<now, BlockedIP, RequestLog, cache, req, cli, adm, det,
                   active, lastOp, sched, lookup>>

\* The loop is over: return blocked_count.
AutoReturn(j) ==
    /\ auto[j].pc = "loop"
    /\ auto[j].items = {}
    /\ auto' = [auto EXCEPT ![j] = AutoIdle]
    /\ ret' = [NoRet EXCEPT !.kind = "auto_block", !.resp = "ok",
                            !.n = auto[j].blocked_count,
                            !.set = auto[j].newly,
                            !.elig = auto[j].elig,
                            !.second = auto[j].second,
                            !.owed = auto[j].owed]
    /\ lastOp' = [ip \in Addrs |-> IF ip \in auto[j].newly THEN "auto_block"
                                   ELSE lastOp[ip]]
    /\ UNCHANGED <<now, BlockedIP, SuspiciousIP, RequestLog, cache, req, cli,
                   adm, det, active, sched, lookup>>

\* The run ends where it is: a statement raises (the store is unavailable)
\* or the worker stops.  history: elig, the addresses that met the
\* condition when the run began, is what the next run owes.
AutoAbort(j) ==
    /\ auto[j].pc # "idle"
    /\ auto' = [auto EXCEPT ![j] = AutoIdle]
    /\ ret' = [NoRet EXCEPT !.kind = "auto_block", !.resp = "aborted",
                            !.n = auto[j].blocked_count,
                            !.set = auto[j].newly,
                            !.elig = auto[j].elig]
    /\ UNCHANGED <<now, BlockedIP, SuspiciousIP, RequestLog, cache, req, cli,
                   adm, det, active, lastOp, sched, lookup>>

----------------------------------------------------------------------------
(* tasks.py: detect_anomalies                                              *)

sensitive_paths == <<AdminPath, LoginPath, RegisterPath, ApiPath>>

\* path__startswith=prefix
StartsWith(path, prefix) ==
    Len(prefix) <= Len(path) /\ SubSeq(path, 1, Len(prefix)) = prefix

\* sub occurs in s.
Contains(s, sub) ==
    \E i \in 0..(Len(s) - Len(sub)) : SubSeq(s, i + 1, i + Len(sub)) = sub

LoginWord == <<"l", "o", "g", "i", "n">>

\* reason__contains="login" on a flag's reason: "High request volume: N
\* requests in the last hour", "Excessive access to sensitive path
\* '<prefix>': N requests in the last hour", or "Possible brute force
\* attack: N login attempts in the last hour".
ReasonContainsLogin(f) ==
    CASE f.rule = "volume" -> FALSE
      [] f.rule = "path"   -> Contains(f.prefix, LoginWord)
      [] f.rule = "login"  -> TRUE

\* The path condition of a rule's query: none for the volume rule,
\* path__startswith=path_prefix for the idx-th sensitive prefix,
\* path="/login" for the login rule.
PathMatches(path, phase, idx) ==
    CASE phase = "volume" -> TRUE
      [] phase = "path"   -> StartsWith(path, sensitive_paths[idx])
      [] phase = "login"  -> path = LoginPath

\* request_count__gt of a rule's query.
Threshold(phase) ==
    CASE phase = "volume" -> HIGH_VOLUME_THRESHOLD
      [] phase = "path"   -> SENSITIVE_PATH_THRESHOLD
      [] phase = "login"  -> LOGIN_THRESHOLD

\* Count("id") over the rows of ip since t that the rule's query keeps.
RequestCount(log, t, phase, idx, ip) ==
    LET rows == {r \in DOMAIN log :
                    /\ r.ip_address = ip
                    /\ r.timestamp >= t
                    /\ PathMatches(r.path, phase, idx)}
    IN BagCardinality([r \in rows |-> log[r]])

\* A query that keeps the counts at the threshold too (request_count__gte).
PhaseQuery_gte(log, t, phase, idx) ==
    {<<ip, RequestCount(log, t, phase, idx, ip)>> :
        ip \in {a \in {r.ip_address : r \in DOMAIN log} :
                   RequestCount(log, t, phase, idx, a) >= Threshold(phase)}}

\* RequestLog.objects.filter(timestamp__gte=t, <path condition>)
\*     .values("ip_address").annotate(request_count=Count("id"))
\*     .filter(request_count__gt=threshold): the set of
\* <<ip_address, request_count>>.
PhaseQuery(log, t, phase, idx) ==
    {<<ip, RequestCount(log, t, phase, idx, ip)>> :
        ip \in {a \in {r.ip_address : r \in DOMAIN log} :
                   RequestCount(log, t, phase, idx, a) > Threshold(phase)}}

\* A guard that asks for "login" in the reason under every rule.
recent_flag_login_only(tbl, ip, t, phase) ==
    \E i \in 1..Len(tbl) :
        /\ tbl[i].ip_address = ip
        /\ tbl[i].flagged_at >= t - DEDUP_WINDOW
        /\ ~tbl[i].is_resolved
        /\ ReasonContainsLogin(tbl[i])

\* A guard that looks back one hour, the window of the queries.
recent_flag_hour(tbl, ip, t, phase) ==
    \E i \in 1..Len(tbl) :
        /\ tbl[i].ip_address = ip
        /\ tbl[i].flagged_at >= t - DETECT_WINDOW
        /\ ~tbl[i].is_resolved
        /\ phase = "login" => ReasonContainsLogin(tbl[i])

\* A guard that takes any flag under every rule.
recent_flag_any(tbl, ip, t, phase) ==
    \E i \in 1..Len(tbl) :
        /\ tbl[i].ip_address = ip
        /\ tbl[i].flagged_at >= t - DEDUP_WINDOW
        /\ ~tbl[i].is_resolved

\* SuspiciousIP.objects.filter(ip_address=ip, flagged_at__gte=now - 24h,
\*     is_resolved=False[, reason__contains="login"]).exists()
recent_flag(tbl, ip, t, phase) ==
    \E i \in 1..Len(tbl) :
        /\ tbl[i].ip_address = ip
        /\ tbl[i].flagged_at >= t - DEDUP_WINDOW
        /\ ~tbl[i].is_resolved
        /\ phase = "login" => ReasonContainsLogin(tbl[i])

\* A run of the task: where it is, one_hour_ago, flagged_count, the rule it
\* is in, the items its loop has left, the item in hand and its recent_flag.
\* history: prev, when the worker's previous run began; begun, when this
\* one did; same_rule, whether the item in hand had a flag of the rule in
\* hand when its guard was evaluated; held, the rules under which an item
\* had one and got no flag; base, the number of SuspiciousIP rows when the
\* run began; clean, the addresses that were then neither actively blocked
\* nor under an unresolved flag of the preceding 24 hours.
DetIdle == [pc |-> "idle", one_hour_ago |-> 0, flagged_count |-> 0,
            phase |-> None, idx |-> 0, items |-> {}, ip |-> None,
            request_count |-> 0, recent_flag |-> FALSE, begun |-> -1,
            prev |-> -1, same_rule |-> FALSE, held |-> {}, base |-> 0,
            clean |-> {}]

\* history: ip has an unresolved flag made by `rule` that was flagged in the
\* 24 hours up to t.
SameRuleFlag(tbl, ip, t, rule) ==
    \E i \in 1..Len(tbl) :
        /\ tbl[i].ip_address = ip
        /\ tbl[i].rule = rule
        /\ ~tbl[i].is_resolved
        /\ tbl[i].flagged_at >= t - DEDUP_WINDOW
        /\ tbl[i].flagged_at <= t

\* The task starts: one_hour_ago is taken, and the volume query is run as
\* its loop begins.
DetStart(j) ==
    /\ det[j].pc = "idle"
    /\ CanStart
    /\ det' = [det EXCEPT ![j] =
                 [DetIdle EXCEPT !.pc = "loop", !.one_hour_ago = now - DETECT_WINDOW,
                     !.phase = "volume",
                     !.items = PhaseQuery(RequestLog, now - DETECT_WINDOW, "volume", 0),
                     !.begun = now, !.prev = det[j].prev,
                     !.base = Len(SuspiciousIP),
                     !.clean = {a \in Addrs :
                                  /\ ~ActiveExists(BlockedIP, a)
                                  /\ ~recent_flag(SuspiciousIP, a, now, "volume")}]]
    /\ ret' = NoRet
    /\ UNCHANGED <<now, BlockedIP, SuspiciousIP, RequestLog, cache, req, cli,
                   adm, auto, active, lastOp, sched, lookup>>

\* The next item of the loop (the query sets no order), and its recent_flag
\* query.
DetRecentFlag(j, item) ==
    /\ det[j].pc = "loop"
    /\ item \in det[j].items
    /\ det' = [det EXCEPT ![j].items = @ \ {item},
                          ![j].ip = item[1],
                          ![j].request_count = item[2],
                          ![j].recent_flag =
                              recent_flag(SuspiciousIP, item[1], now, det[j].phase),
                          ![j].same_rule =
                              SameRuleFlag(SuspiciousIP, item[1], now, det[j].phase),
                          ![j].pc = "is_blocked"]
    /\ ret' = NoRet
    /\ UNCHANGED <<now, BlockedIP, SuspiciousIP, RequestLog, cache, req, cli,
                   adm, auto, active, lastOp, sched, lookup>>

\* The item's is_blocked query, and the test of the two.
DetIsBlocked(j) ==
    /\ det[j].pc = "is_blocked"
    /\ LET is_blocked == ActiveExists(BlockedIP, det[j].ip) IN
       det' = IF ~det[j].recent_flag /\ ~is_blocked
              THEN [det EXCEPT ![j].pc = "create"]
              ELSE [det EXCEPT ![j].pc = "loop", ![j].ip = None,
                               ![j].request_count = 0, ![j].recent_flag = FALSE,
                               ![j].same_rule = FALSE,
                               ![j].held = IF det[j].same_rule
                                            THEN @ \cup {det[j].phase} ELSE @]
    /\ ret' = NoRet
    /\ UNCHANGED <<now, BlockedIP, SuspiciousIP, RequestLog, cache, req, cli,
                   adm, auto, active, lastOp, sched, lookup>>

\* SuspiciousIP.objects.create(...), and flagged_count += 1.
DetCreate(j) ==
    /\ det[j].pc = "create"
    /\ SuspiciousIP' =
         Append(SuspiciousIP,
                [ip_address |-> det[j].ip, rule |-> det[j].phase,
                 prefix |-> IF det[j].phase = "path"
                            THEN sensitive_paths[det[j].idx] ELSE <<>>,
                 request_count |-> det[j].request_count, flagged_at |-> now,
                 is_resolved |-> FALSE])
    /\ det' = [det EXCEPT ![j].pc = "loop", ![j].flagged_count = @ + 1,
                          ![j].ip = None, ![j].request_count = 0,
                          ![j].recent_flag = FALSE, ![j].same_rule = FALSE]
    /\ ret' = NoRet
    /\ UNCHANGED <<now, BlockedIP, RequestLog, cache, req, cli, adm, auto,
                   active, lastOp, sched, lookup>>

\* A loop is over and the next rule's query is run: the sensitive prefixes
\* in order, then the login rule.
DetNextQuery(j) ==
    /\ det[j].pc = "loop"
    /\ det[j].items = {}
    /\ det[j].phase # "login"
    /\ LET last == det[j].phase = "path" /\ det[j].idx = Len(sensitive_paths)
           phase == IF last THEN "login" ELSE "path"
           idx == IF last THEN 0 ELSE det[j].idx + 1
       IN det' = [det EXCEPT ![j].phase = phase, ![j].idx = idx,
                             ![j].items = PhaseQuery(RequestLog, det[j].one_hour_ago,
                                                     phase, idx)]
    /\ ret' = NoRet
    /\ UNCHANGED <<now, BlockedIP, SuspiciousIP, RequestLog, cache, req, cli,
                   adm, auto, active, lastOp, sched, lookup>>

\* The last loop is over: return {"flagged_count": ..., "timestamp": ...}.
DetReturn(j) ==
    /\ det[j].pc = "loop"
    /\ det[j].items = {}
    /\ det[j].phase = "login"
    /\ det' = [det EXCEPT ![j] = [DetIdle EXCEPT !.prev = det[j].begun]]
    /\ ret' = [NoRet EXCEPT !.kind = "detect_anomalies", !.resp = "ok",
                            !.n = det[j].flagged_count,
                            !.prev = det[j].prev,
                            !.begun = det[j].begun,
                            !.held = det[j].held,
                            !.base = det[j].base,
                            !.clean = det[j].clean,
                            !.second = /\ det[j].prev >= 0
                                       /\ det[j].begun - det[j].prev < DETECT_WINDOW]
    /\ UNCHANGED <<now, BlockedIP, SuspiciousIP, RequestLog, cache, req, cli,
                   adm, auto, active, lastOp, sched, lookup>>

----------------------------------------------------------------------------
(* The clock                                                               *)

Tick ==
    /\ now + TickStep <= StartTime + MaxTicks * TickStep
    /\ now' = now + TickStep
    /\ cache' = cache_expire(cache, now')
    /\ ret' = NoRet
    /\ UNCHANGED <<BlockedIP, SuspiciousIP, RequestLog, req, cli, adm, auto,
                   det, active, lastOp, sched, lookup>>

----------------------------------------------------------------------------
(* The gate with the block registry: requests, the command, the admin      *)
(* actions and the auto-escalator                                          *)

\* A SuspiciousIP row; its reason is the rule that made it, the path prefix
\* the rule names, and the count.
Flag(ip, rule, prefix, n, t) ==
    [ip_address |-> ip, rule |-> rule, prefix |-> prefix, request_count |-> n,
     flagged_at |-> t, is_resolved |-> FALSE]

\* Three unresolved flags of one address (flags left by detect_anomalies
\* and put back by mark_as_unresolved).
ThreeFlags(ip, t) ==
    <<Flag(ip, "volume", <<>>, 101, t), Flag(ip, "login", <<>>, 11, t),
      Flag(ip, "volume", <<>>, 101, t)>>

GateFlagTables == {<<>>, ThreeFlags("10.0.0.5", StartTime - 3600)}

Start ==
    /\ now = StartTime
    /\ BlockedIP = [ip \in Addrs |-> <<>>]
    /\ SuspiciousIP \in GateFlagTables
    /\ RequestLog = EmptyBag
    /\ cache = [k \in CacheKeys |-> NoEntry]
    /\ req = [w \in Workers |-> ReqIdle]
    /\ cli = CliIdle
    /\ adm = AdmIdle
    /\ auto = [j \in AutoJobs |-> AutoIdle]
    /\ det = [j \in DetJobs |-> DetIdle]
    /\ active = [ip \in Addrs |-> [since |-> -1, stale |-> FALSE, until |-> -1]]
    /\ lastOp = [ip \in Addrs |-> NoOp]
    /\ ret = NoRet
    /\ lookup = NoLookups

\* The selections an admin makes on the flag list: all flags of one address.
GateSelections ==
    {{i \in FlagIds : SuspiciousIP[i].ip_address = ip} : ip \in GateAddrs}

GateJobs == {"e1"}

\* A handler is called.
GateStart ==
    \/ \E w \in Workers, ip \in GateAddrs, path \in GatePaths : ReqStart(w, ip, path)
    \/ \E ip \in GateAddrs : CliBlockDb(ip)
    \/ \E ip \in GateAddrs : CliUnblockDb(ip)
    \/ \E S \in SUBSET GateAddrs : AdminActivate(S)
    \/ \E S \in SUBSET GateAddrs : AdminDeactivate(S)

\* A handler in flight takes its next step.
GateStep ==
    \/ \E w \in Workers : ReqCacheGet(w)
    \/ \E w \in Workers : ReqDbRead(w)
    \/ \E w \in Workers : ReqCacheSet(w)
    \/ \E w \in Workers : ReqForbidden(w)
    \/ \E w \in Workers, saved \in BOOLEAN :
          \E o \in OutcomesFor(req[w].ip), f \in FaultsFor(req[w].ip) :
             ReqAdmit(w, o, f, saved)
    \/ CliClear

EscStart ==
    \/ \E Q \in GateSelections : AdmStart(Q)
    \/ \E j \in GateJobs : AutoStart(j)

EscStep ==
    \/ \E i \in FlagIds : AdmFlag(i)
    \/ AdmReturn
    \/ \E j \in GateJobs : \E item \in auto[j].items : AutoCheck(j, item)
    \/ \E j \in GateJobs : AutoCreate(j)
    \/ \E j \in GateJobs : AutoResolve(j)
    \/ \E j \in GateJobs : AutoReturn(j)

\* Requests, the command and the admin actions.
Next == Tick \/ GateStart \/ GateStep

\* The same with the escalation paths.
EscNext == Next \/ EscStart \/ EscStep

\* The gate alone takes no step that reads the flags: it starts without any.
Init == Start /\ sched = "any" /\ SuspiciousIP = <<>>
SeqInit == Start /\ sched = "one"

\* Two runs of the auto-escalator over flags of two addresses.
EscInit ==
    /\ now = StartTime
    /\ BlockedIP = [ip \in Addrs |-> <<>>]
    /\ SuspiciousIP \in
          {ThreeFlags("10.0.0.5", StartTime - 3600),
           ThreeFlags("10.0.0.5", StartTime - 3600)
              \o ThreeFlags("192.168.1.9", StartTime - 3600)}
    /\ RequestLog = EmptyBag
    /\ cache = [k \in CacheKeys |-> NoEntry]
    /\ req = [w \in Workers |-> ReqIdle]
    /\ cli = CliIdle
    /\ adm = AdmIdle
    /\ auto = [j \in AutoJobs |-> AutoIdle]
    /\ det = [j \in DetJobs |-> DetIdle]
    /\ active = [ip \in Addrs |-> [since |-> -1, stale |-> FALSE, until |-> -1]]
    /\ lastOp = [ip \in Addrs |-> NoOp]
    /\ ret = NoRet
    /\ lookup = NoLookups
    /\ sched = "any"

EscRunsNext ==
    \/ \E j \in AutoJobs : AutoStart(j)
    \/ \E j \in AutoJobs : \E item \in auto[j].items : AutoCheck(j, item)
    \/ \E j \in AutoJobs : AutoCreate(j)
    \/ \E j \in AutoJobs : AutoResolve(j)
    \/ \E j \in AutoJobs : AutoReturn(j)

----------------------------------------------------------------------------
(* The anomaly detector over a log store that does not change              *)

MaxDetTicks == 2
\* The detector's clock advances by half its window.
DetTickStep == DETECT_WINDOW \div 2

DetTick ==
    /\ now + DetTickStep <= StartTime + MaxDetTicks * DetTickStep
    /\ now' = now + DetTickStep
    /\ cache' = cache_expire(cache, now')
    /\ ret' = NoRet
    /\ UNCHANGED <<BlockedIP, SuspiciousIP, RequestLog, req, cli, adm, auto,
                   det, active, lastOp, sched, lookup>>

\* n RequestLog rows of one address and path.
Hits(ip, path, n, t) ==
    [r \in {[ip_address |-> ip, path |-> path, timestamp |-> t,
             country |-> None, city |-> None]} |-> n]

\* The last hour's traffic of an address: none, at and over the volume
\* threshold, over the login threshold, over the sensitive-path threshold
\* under one prefix and under two, over the volume and login thresholds.
Traffic(ip, t) ==
    {EmptyBag,
     Hits(ip, HomePath, HIGH_VOLUME_THRESHOLD, t),
     Hits(ip, HomePath, HIGH_VOLUME_THRESHOLD + 1, t),
     Hits(ip, LoginPath, LOGIN_THRESHOLD + 1, t),
     Hits(ip, LoginPath, SENSITIVE_PATH_THRESHOLD + 1, t),
     Hits(ip, AdminPath, SENSITIVE_PATH_THRESHOLD + 1, t)
        (+) Hits(ip, ApiPath, SENSITIVE_PATH_THRESHOLD + 1, t),
     Hits(ip, HomePath, HIGH_VOLUME_THRESHOLD - LOGIN_THRESHOLD, t)
        (+) Hits(ip, LoginPath, LOGIN_THRESHOLD + 1, t)}

\* The flags the detector finds: none, one as old as the guard window, one
\* of the last hour.
DetFlagTables ==
    {<<>>,
     <<Flag("8.8.8.8", "volume", <<>>, HIGH_VOLUME_THRESHOLD + 1,
            StartTime - DEDUP_WINDOW)>>,
     <<Flag("8.8.8.8", "volume", <<>>, HIGH_VOLUME_THRESHOLD + 1,
            StartTime - DETECT_WINDOW)>>}

DetStartState ==
    /\ now = StartTime
    /\ BlockedIP \in {[ip \in Addrs |-> <<>>],
                       [ip \in Addrs |-> IF ip = "8.8.8.8" THEN <<TRUE>> ELSE <<>>]}
    /\ SuspiciousIP \in DetFlagTables
    /\ \E a \in Traffic("8.8.8.8", StartTime - DetTickStep),
          b \in {EmptyBag,
                 Hits("192.168.1.9", HomePath, HIGH_VOLUME_THRESHOLD + 1,
                      StartTime - DetTickStep)} :
          RequestLog = a (+) b
    /\ cache = [k \in CacheKeys |-> NoEntry]
    /\ req = [w \in Workers |-> ReqIdle]
    /\ cli = CliIdle
    /\ adm = AdmIdle
    /\ auto = [j \in AutoJobs |-> AutoIdle]
    /\ det = [j \in DetJobs |-> DetIdle]
    /\ active = [ip \in Addrs |-> [since |-> -1, stale |-> FALSE, until |-> -1]]
    /\ lastOp = [ip \in Addrs |-> NoOp]
    /\ ret = NoRet
    /\ lookup = NoLookups

DetInit == DetStartState /\ sched = "any"
DetSeqInit == DetStartState /\ sched = "one"

\* Runs of the detector on two workers, within one tick of the clock.
DetNext ==
    \/ \E j \in DetJobs : DetStart(j)
    \/ \E j \in DetJobs : \E item \in det[j].items : DetRecentFlag(j, item)
    \/ \E j \in DetJobs : DetIsBlocked(j)
    \/ \E j \in DetJobs : DetCreate(j)
    \/ \E j \in DetJobs : DetNextQuery(j)
    \/ \E j \in DetJobs : DetReturn(j)

DetSeqJobs == {"d1"}

\* Runs of the detector on one worker.
DetSeqNext ==
    \/ DetTick
    \/ \E j \in DetSeqJobs : DetStart(j)
    \/ \E j \in DetSeqJobs : \E item \in det[j].items : DetRecentFlag(j, item)
    \/ \E j \in DetSeqJobs : DetIsBlocked(j)
    \/ \E j \in DetSeqJobs : DetCreate(j)
    \/ \E j \in DetSeqJobs : DetNextQuery(j)
    \/ \E j \in DetSeqJobs : DetReturn(j)

\* One address with 101 requests in the last hour, spread over paths, and
\* another with at most 100: none, 100, 100 and one older than the hour, 21
\* under a sensitive prefix, 11 to /login.  No flag and no block.
VolInit ==
    /\ now = StartTime
    /\ BlockedIP = [ip \in Addrs |-> <<>>]
    /\ SuspiciousIP = <<>>
    /\ \E a \in {Hits("8.8.8.8", HomePath, HIGH_VOLUME_THRESHOLD + 1,
                       StartTime - DetTickStep),
                  Hits("8.8.8.8", LoginPath, HIGH_VOLUME_THRESHOLD + 1,
                       StartTime - DetTickStep),
                  Hits("8.8.8.8", HomePath, HIGH_VOLUME_THRESHOLD - LOGIN_THRESHOLD,
                       StartTime - DetTickStep)
                     (+) Hits("8.8.8.8", LoginPath, LOGIN_THRESHOLD + 1,
                              StartTime - DetTickStep),
                  Hits("8.8.8.8", HomePath,
                       HIGH_VOLUME_THRESHOLD - SENSITIVE_PATH_THRESHOLD,
                       StartTime - DetTickStep)
                     (+) Hits("8.8.8.8", AdminPath, SENSITIVE_PATH_THRESHOLD + 1,
                              StartTime - DetTickStep)},
          b \in {EmptyBag,
                 Hits("192.168.1.9", HomePath, HIGH_VOLUME_THRESHOLD,
                      StartTime - DetTickStep),
                 Hits("192.168.1.9", HomePath, HIGH_VOLUME_THRESHOLD,
                      StartTime - DetTickStep)
                    (+) Hits("192.168.1.9", HomePath, 1,
                             StartTime - 2 * DETECT_WINDOW),
                 Hits("192.168.1.9", AdminPath, SENSITIVE_PATH_THRESHOLD + 1,
                      StartTime - DetTickStep),
                 Hits("192.168.1.9", LoginPath, LOGIN_THRESHOLD + 1,
                      StartTime - DetTickStep)} :
          RequestLog = a (+) b
    /\ cache = [k \in CacheKeys |-> NoEntry]
    /\ req = [w \in Workers |-> ReqIdle]
    /\ cli = CliIdle
    /\ adm = AdmIdle
    /\ auto = [j \in AutoJobs |-> AutoIdle]
    /\ det = [j \in DetJobs |-> DetIdle]
    /\ active = [ip \in Addrs |-> [since |-> -1, stale |-> FALSE, until |-> -1]]
    /\ lastOp = [ip \in Addrs |-> NoOp]
    /\ ret = NoRet
    /\ lookup = NoLookups
    /\ sched = "one"

----------------------------------------------------------------------------
(* Requests while a block is lifted                                        *)

MaxLateTicks == 3

\* The clock, running to one and a half blocked-decision TTLs.
LateTick ==
    /\ now + TickStep <= StartTime + MaxLateTicks * TickStep
    /\ now' = now + TickStep
    /\ cache' = cache_expire(cache, now')
    /\ ret' = NoRet
    /\ UNCHANGED <<BlockedIP, SuspiciousIP, RequestLog, req, cli, adm, auto,
                   det, active, lastOp, sched, lookup>>

\* The gate's address is actively blocked, another never was.
LiftInit ==
    /\ now = StartTime
    /\ BlockedIP = [ip \in Addrs |-> IF ip \in GateAddrs THEN <<TRUE>> ELSE <<>>]
    /\ SuspiciousIP = <<>>
    /\ RequestLog = EmptyBag
    /\ cache = [k \in CacheKeys |-> NoEntry]
    /\ req = [w \in Workers |-> ReqIdle]
    /\ cli = CliIdle
    /\ adm = AdmIdle
    /\ auto = [j \in AutoJobs |-> AutoIdle]
    /\ det = [j \in DetJobs |-> DetIdle]
    /\ active = [ip \in Addrs |->
                   [since |-> IF ip \in GateAddrs THEN StartTime ELSE -1,
                    stale |-> FALSE, until |-> -1]]
    /\ lastOp = [ip \in Addrs |-> NoOp]
    /\ ret = NoRet
    /\ lookup = NoLookups
    /\ sched = "any"

\* Requests, and the two ways a block is lifted.
LiftNext ==
    \/ LateTick
    \/ \E w \in Workers, ip \in RegAddrs, path \in GatePaths : ReqStart(w, ip, path)
    \/ \E w \in Workers : ReqCacheGet(w)
    \/ \E w \in Workers : ReqDbRead(w)
    \/ \E w \in Workers : ReqCacheSet(w)
    \/ \E w \in Workers : ReqForbidden(w)
    \/ \E w \in Workers, saved \in BOOLEAN :
          \E o \in OutcomesFor(req[w].ip), f \in FaultsFor(req[w].ip) :
             ReqAdmit(w, o, f, saved)
    \/ \E ip \in GateAddrs : CliUnblockDb(ip)
    \/ CliClear
    \/ \E S \in SUBSET GateAddrs : AdminDeactivate(S)

----------------------------------------------------------------------------
(* Requests and the geolocation service                                    *)

MaxGeoTicks == 3
GeoTickStep == GEOLOCATION_ERROR_TIMEOUT \div 2

\* The times requests arrive at: up to one and a half error timeouts after
\* the start, and half an error timeout before, at and after a whole
\* geolocation timeout.
GeoTimes ==
    {StartTime + k * GeoTickStep : k \in 0..MaxGeoTicks}
    \cup {StartTime + GEOLOCATION_CACHE_TIMEOUT + k * GeoTickStep : k \in -1..1}

GeoTick ==
    /\ \E t \in GeoTimes : t > now /\ now' = t
    /\ cache' = cache_expire(cache, now')
    /\ ret' = NoRet
    /\ UNCHANGED <<BlockedIP, SuspiciousIP, RequestLog, req, cli, adm, auto,
                   det, active, lastOp, sched, lookup>>

GeoWorkers == {"w1"}
GeoAddrs == PublicAddrs

GeoInit == Start /\ sched = "one" /\ SuspiciousIP = <<>>

\* Requests of a public address, not blocked, one at a time.
GeoNext ==
    \/ GeoTick
    \/ \E w \in GeoWorkers, ip \in GeoAddrs, path \in GatePaths : ReqStart(w, ip, path)
    \/ \E w \in GeoWorkers : ReqCacheGet(w)
    \/ \E w \in GeoWorkers : ReqDbRead(w)
    \/ \E w \in GeoWorkers : ReqCacheSet(w)
    \/ \E w \in GeoWorkers, saved \in BOOLEAN :
          \E o \in OutcomesFor(req[w].ip), f \in FaultsFor(req[w].ip) :
             ReqAdmit(w, o, f, saved)

----------------------------------------------------------------------------
(* Requests of local addresses                                             *)

\* The addresses get_geolocation is to leave alone.
LocalGeoAddrs == PrivateAddrs \cup LocalAddrs
LocalKeys == {BLOCKED_IP_CACHE_PREFIX, GEOLOCATION_CACHE_PREFIX} \X LocalGeoAddrs

\* The geolocation cache is shared: it is empty, or holds a live entry for
\* every one of the addresses, left under its key by another writer.
LocalCaches ==
    {[k \in LocalKeys |-> NoEntry],
     [k \in LocalKeys |->
        IF k[1] = GEOLOCATION_CACHE_PREFIX
        THEN [present |-> TRUE, value |-> GeoFound,
              exp |-> StartTime + GEOLOCATION_CACHE_TIMEOUT]
        ELSE NoEntry]}

LocalInit ==
    /\ now = StartTime
    /\ BlockedIP = [ip \in LocalGeoAddrs |-> <<>>]
    /\ SuspiciousIP = <<>>
    /\ RequestLog = EmptyBag
    /\ cache \in LocalCaches
    /\ req = [w \in Workers |-> ReqIdle]
    /\ cli = CliIdle
    /\ adm = AdmIdle
    /\ auto = [j \in AutoJobs |-> AutoIdle]
    /\ det = [j \in DetJobs |-> DetIdle]
    /\ active = [ip \in LocalGeoAddrs |->
                   [since |-> -1, stale |-> FALSE, until |-> -1]]
    /\ lastOp = [ip \in LocalGeoAddrs |-> NoOp]
    /\ ret = NoRet
    /\ lookup = NoLookups
    /\ sched = "one"

\* Requests of the local addresses, one at a time.
LocalNext ==
    \/ \E w \in GeoWorkers, ip \in LocalGeoAddrs, path \in GatePaths :
          ReqStart(w, ip, path)
    \/ \E w \in GeoWorkers : ReqCacheGet(w)
    \/ \E w \in GeoWorkers : ReqDbRead(w)
    \/ \E w \in GeoWorkers : ReqCacheSet(w)
    \/ \E w \in GeoWorkers, saved \in BOOLEAN :
          \E o \in OutcomesFor(req[w].ip), f \in FaultsFor(req[w].ip) :
             ReqAdmit(w, o, f, saved)

----------------------------------------------------------------------------
(* Requests through a proxy                                                *)

ProxyAddr == "10.0.0.5"
ClientAddr == "8.8.8.8"

\* Values of a forwarding header: one address, and lists with spaces
\* around their entries.
HeaderValues ==
    {<<ClientAddr>>,
     <<ClientAddr, ",", " ", ProxyAddr>>,
     <<" ", ClientAddr, " ", ",", "192.168.1.9", ",", " ", ProxyAddr>>}

\* Requests that come directly, and requests the proxy passes on with an
\* X-Forwarded-For or an X-Forward-For header.
FwdMetas ==
    {[REMOTE_ADDR |-> <<a>>] : a \in {ProxyAddr, ClientAddr}}
    \cup {[REMOTE_ADDR |-> <<ProxyAddr>>, HTTP_X_FORWARDED_FOR |-> h] :
             h \in HeaderValues}
    \cup {[REMOTE_ADDR |-> <<ProxyAddr>>, HTTP_X_FORWARD_FOR |-> h] :
             h \in HeaderValues}

\* The client's address is actively blocked, or no address is.
FwdInit ==
    /\ now = StartTime
    /\ BlockedIP \in {[ip \in Addrs |-> <<>>],
                      [ip \in Addrs |-> IF ip = ClientAddr THEN <<TRUE>> ELSE <<>>]}
    /\ SuspiciousIP = <<>>
    /\ RequestLog = EmptyBag
    /\ cache = [k \in CacheKeys |-> NoEntry]
    /\ req = [w \in Workers |-> ReqIdle]
    /\ cli = CliIdle
    /\ adm = AdmIdle
    /\ auto = [j \in AutoJobs |-> AutoIdle]
    /\ det = [j \in DetJobs |-> DetIdle]
    /\ active = [ip \in Addrs |->
                   [since |-> IF ActiveExists(BlockedIP, ip) THEN StartTime ELSE -1,
                    stale |-> FALSE, until |-> -1]]
    /\ lastOp = [ip \in Addrs |-> NoOp]
    /\ ret = NoRet
    /\ lookup = NoLookups
    /\ sched = "one"

FwdNext ==
    \/ \E w \in GeoWorkers, META \in FwdMetas, path \in GatePaths :
          ReqArrive(w, META, path)
    \/ \E w \in GeoWorkers : ReqCacheGet(w)
    \/ \E w \in GeoWorkers : ReqDbRead(w)
    \/ \E w \in GeoWorkers : ReqCacheSet(w)
    \/ \E w \in GeoWorkers : ReqForbidden(w)
    \/ \E w \in GeoWorkers, saved \in BOOLEAN :
          \E o \in OutcomesFor(req[w].ip), f \in FaultsFor(req[w].ip) :
             ReqAdmit(w, o, f, saved)

----------------------------------------------------------------------------
(* tasks.py: cleanup_old_logs                                              *)

\* filter(timestamp__lt=thirty_days_ago)
Expired_lte(row, thirty_days_ago) == row.timestamp <= thirty_days_ago
Expired(row, thirty_days_ago) == row.timestamp < thirty_days_ago

\* The rows of the table the filter selects.
ExpiredRows(log, thirty_days_ago) ==
    LET rows == {row \in BagToSet(log) : Expired(row, thirty_days_ago)}
    IN [row \in rows |-> CopiesIn(row, log)]

\* cleanup_old_logs(): one DELETE, and the number of rows it deleted.
cleanup_old_logs ==
    /\ CanStart
    /\ LET thirty_days_ago == now - LOG_RETENTION
           doomed == ExpiredRows(RequestLog, thirty_days_ago)
       IN /\ RequestLog' = RequestLog (-) doomed
          /\ ret' = [NoRet EXCEPT !.kind = "cleanup_old_logs",
                                  !.n = BagCardinality(doomed),
                                  !.begun = now]
    /\ UNCHANGED <<now, BlockedIP, SuspiciousIP, cache, req, cli, adm, auto,
                   det, active, lastOp, sched, lookup>>

MaxCleanTicks == 2
MaxCopies == 2
CleanStartTime == StartTime + LOG_RETENTION

\* The clock, second by second.
CleanTick ==
    /\ now < CleanStartTime + MaxCleanTicks
    /\ now' = now + 1
    /\ cache' = cache_expire(cache, now')
    /\ ret' = NoRet
    /\ UNCHANGED <<BlockedIP, SuspiciousIP, RequestLog, req, cli, adm, auto,
                   det, active, lastOp, sched, lookup>>

\* Rows written 30 days before the start, a second earlier, and one and two
\* seconds later.
CleanStamps == {StartTime + d : d \in -1..2}
LogRow(t) ==
    [ip_address |-> "10.0.0.5", path |-> HomePath, timestamp |-> t,
     country |-> None, city |-> None]
CleanLogs ==
    {LET stamps == {t \in CleanStamps : copies[t] > 0}
     IN [row \in {LogRow(t) : t \in stamps} |-> copies[row.timestamp]] :
        copies \in [CleanStamps -> 0..MaxCopies]}

\* Some rows in the log, an address blocked and flagged before the oldest
\* of them was written.
CleanInit ==
    /\ now = CleanStartTime
    /\ BlockedIP = [ip \in Addrs |-> IF ip \in GateAddrs THEN <<TRUE>> ELSE <<>>]
    /\ SuspiciousIP = ThreeFlags("10.0.0.5", StartTime - DETECT_WINDOW)
    /\ RequestLog \in CleanLogs
    /\ cache = [k \in CacheKeys |-> NoEntry]
    /\ req = [w \in Workers |-> ReqIdle]
    /\ cli = CliIdle
    /\ adm = AdmIdle
    /\ auto = [j \in AutoJobs |-> AutoIdle]
    /\ det = [j \in DetJobs |-> DetIdle]
    /\ active = [ip \in Addrs |->
                   [since |-> IF ip \in GateAddrs THEN StartTime - DETECT_WINDOW
                              ELSE -1,
                    stale |-> FALSE, until |-> -1]]
    /\ lastOp = [ip \in Addrs |-> NoOp]
    /\ ret = NoRet
    /\ lookup = NoLookups
    /\ sched = "one"

CleanNext == CleanTick \/ cleanup_old_logs

----------------------------------------------------------------------------
(* Runs of the auto-escalator that abort, and their retries                *)

\* The flags of one or of two addresses, none blocked.
RetryInit ==
    /\ now = StartTime
    /\ BlockedIP = [ip \in Addrs |-> <<>>]
    /\ SuspiciousIP \in
          {ThreeFlags("10.0.0.5", StartTime - DETECT_WINDOW),
           ThreeFlags("10.0.0.5", StartTime - DETECT_WINDOW)
              \o ThreeFlags("192.168.1.9", StartTime - DETECT_WINDOW)}
    /\ RequestLog = EmptyBag
    /\ cache = [k \in CacheKeys |-> NoEntry]
    /\ req = [w \in Workers |-> ReqIdle]
    /\ cli = CliIdle
    /\ adm = AdmIdle
    /\ auto = [j \in AutoJobs |-> AutoIdle]
    /\ det = [j \in DetJobs |-> DetIdle]
    /\ active = [ip \in Addrs |-> [since |-> -1, stale |-> FALSE, until |-> -1]]
    /\ lastOp = [ip \in Addrs |-> NoOp]
    /\ ret = NoRet
    /\ lookup = NoLookups
    /\ sched = "one"

\* Runs one after another, each ending by its return or by an abort.
RetryNext ==
    \/ \E j \in AutoJobs : AutoStart(j)
    \/ \E j \in AutoJobs : \E item \in auto[j].items : AutoCheck(j, item)
    \/ \E j \in AutoJobs : AutoCreate(j)
    \/ \E j \in AutoJobs : AutoResolve(j)
    \/ \E j \in AutoJobs : AutoReturn(j)
    \/ \E j \in AutoJobs : AutoAbort(j)

----------------------------------------------------------------------------
(* The anomaly detector at its thresholds                                  *)

\* The last hour's traffic of an address at the three thresholds together
\* (100 requests, 20 of them under /admin and 10 to /login), just over
\* each of them, and over those of /admin and of the login rule.
EdgeTraffic(ip, t) ==
    {Hits(ip, HomePath,
          HIGH_VOLUME_THRESHOLD - SENSITIVE_PATH_THRESHOLD - LOGIN_THRESHOLD, t)
        (+) Hits(ip, AdminPath, SENSITIVE_PATH_THRESHOLD, t)
        (+) Hits(ip, LoginPath, LOGIN_THRESHOLD, t),
     Hits(ip, HomePath, HIGH_VOLUME_THRESHOLD + 1, t),
     Hits(ip, RegisterPath, SENSITIVE_PATH_THRESHOLD + 1, t),
     Hits(ip, LoginPath, LOGIN_THRESHOLD + 1, t),
     Hits(ip, AdminPath, SENSITIVE_PATH_THRESHOLD + 1, t)
        (+) Hits(ip, LoginPath, LOGIN_THRESHOLD + 1, t),
     Hits(ip, AdminPath, SENSITIVE_PATH_THRESHOLD + 1, t)
        (+) Hits(ip, ApiPath, SENSITIVE_PATH_THRESHOLD + 1, t),
     Hits(ip, HomePath, HIGH_VOLUME_THRESHOLD - SENSITIVE_PATH_THRESHOLD, t)
        (+) Hits(ip, LoginPath, SENSITIVE_PATH_THRESHOLD + 1, t)}

\* The flags the detector finds: none, one that left the guard window half
\* an hour ago, one at its edge.
EdgeFlagTables ==
    {<<>>,
     <<Flag("8.8.8.8", "volume", <<>>, HIGH_VOLUME_THRESHOLD + 1,
            StartTime - DEDUP_WINDOW - DetTickStep)>>,
     <<Flag("8.8.8.8", "volume", <<>>, HIGH_VOLUME_THRESHOLD + 1,
            StartTime - DEDUP_WINDOW)>>}

\* One address with traffic at or over a threshold, another, actively
\* blocked or not, over one.
EdgeInit ==
    /\ now = StartTime
    /\ BlockedIP \in {[ip \in Addrs |-> <<>>],
                       [ip \in Addrs |-> IF ip = "192.168.1.9" THEN <<TRUE>> ELSE <<>>]}
    /\ SuspiciousIP \in EdgeFlagTables
    /\ \E a \in EdgeTraffic("8.8.8.8", StartTime - DetTickStep),
          b \in {Hits("192.168.1.9", HomePath, HIGH_VOLUME_THRESHOLD + 1,
                      StartTime - DetTickStep),
                 Hits("192.168.1.9", LoginPath, LOGIN_THRESHOLD + 1,
                      StartTime - DetTickStep)} :
          RequestLog = a (+) b
    /\ cache = [k \in CacheKeys |-> NoEntry]
    /\ req = [w \in Workers |-> ReqIdle]
    /\ cli = CliIdle
    /\ adm = AdmIdle
    /\ auto = [j \in AutoJobs |-> AutoIdle]
    /\ det = [j \in DetJobs |-> DetIdle]
    /\ active = [ip \in Addrs |->
                   [since |-> IF ActiveExists(BlockedIP, ip) THEN StartTime ELSE -1,
                    stale |-> FALSE, until |-> -1]]
    /\ lastOp = [ip \in Addrs |-> NoOp]
    /\ ret = NoRet
    /\ lookup = NoLookups
    /\ sched = "one"

----------------------------------------------------------------------------
(* The pipeline: request logging, the detector and the auto-escalator      *)

MaxDayTicks == 3
\* The clock advances by half the guard window.
DayTickStep == DEDUP_WINDOW \div 2

DayTick ==
    /\ now + DayTickStep <= StartTime + MaxDayTicks * DayTickStep
    /\ now' = now + DayTickStep
    /\ cache' = cache_expire(cache, now')
    /\ ret' = NoRet
    /\ UNCHANGED <<BlockedIP, SuspiciousIP, RequestLog, req, cli, adm, auto,
                   det, active, lastOp, sched, lookup>>

\* What the admitted requests of an address leave in the log in a short
\* time: 101 rows, 11 rows of /login, or 21 rows of /admin and 11 of /login.
Bursts(ip, t) ==
    {Hits(ip, HomePath, HIGH_VOLUME_THRESHOLD + 1, t),
     Hits(ip, LoginPath, LOGIN_THRESHOLD + 1, t),
     Hits(ip, AdminPath, SENSITIVE_PATH_THRESHOLD + 1, t)
        (+) Hits(ip, LoginPath, LOGIN_THRESHOLD + 1, t)}

\* Requests of the address are admitted and logged (the RequestLog rows of
\* as many ReqAdmit steps), once at a time of the clock.
LogBurst(ip, rows) ==
    /\ CanStart
    /\ \A r \in BagToSet(RequestLog) : r.timestamp # now
    /\ RequestLog' = RequestLog (+) rows
    /\ ret' = NoRet
    /\ UNCHANGED <<now, BlockedIP, SuspiciousIP, cache, req, cli, adm, auto,
                   det, active, lastOp, sched, lookup>>

PipeInit == Start /\ sched = "one" /\ SuspiciousIP = <<>>

\* Request logging and runs of the two tasks, one at a time.  The loop body
\* of auto_block_suspicious_ips is not here: by C25 no run has an item.
PipeNext ==
    \/ DayTick
    \/ \E ip \in PublicAddrs : \E rows \in Bursts(ip, now) : LogBurst(ip, rows)
    \/ \E j \in DetSeqJobs : DetStart(j)
    \/ \E j \in DetSeqJobs : \E item \in det[j].items : DetRecentFlag(j, item)
    \/ \E j \in DetSeqJobs : DetIsBlocked(j)
    \/ \E j \in DetSeqJobs : DetCreate(j)
    \/ \E j \in DetSeqJobs : DetNextQuery(j)
    \/ \E j \in DetSeqJobs : DetReturn(j)
    \/ \E j \in GateJobs : AutoStart(j)
    \/ \E j \in GateJobs : AutoReturn(j)

\* Handlers interleave.
Spec == Init /\ [][Next]_vars
\* Handlers run one at a time.
SpecSeq == SeqInit /\ [][EscNext]_vars
\* Runs of the auto-escalator interleave.
SpecEsc == EscInit /\ [][EscRunsNext]_vars
\* Requests interleave with the lifting of a block.
SpecLift == LiftInit /\ [][LiftNext]_vars
\* Requests one at a time, with the geolocation service and its cache.
SpecGeo == GeoInit /\ [][GeoNext]_vars
\* Requests of local addresses, one at a time.
SpecLocal == LocalInit /\ [][LocalNext]_vars
\* Requests that come directly and through a proxy, one at a time.
SpecFwd == FwdInit /\ [][FwdNext]_vars
\* Runs of the log clean-up as the rows age.
SpecClean == CleanInit /\ [][CleanNext]_vars
\* Runs of the auto-escalator abort and are retried.
SpecRetry == RetryInit /\ [][RetryNext]_vars
\* Runs of the detector over windows at the thresholds.
SpecDetEdge == EdgeInit /\ [][DetSeqNext]_vars
\* Request logging, the detector and the auto-escalator, one at a time.
SpecPipe == PipeInit /\ [][PipeNext]_vars
\* Runs of the detector overlap.
SpecDet == DetInit /\ [][DetNext]_vars
\* Runs of the detector follow one another.
SpecDetSeq == DetSeqInit /\ [][DetSeqNext]_vars
\* Runs of the detector over a window with one heavy address.
SpecDetVol == VolInit /\ [][DetSeqNext]_vars

----------------------------------------------------------------------------
(* The gate and the block registry: properties                             *)

\* The blocked-decision cache has a live entry for ip.
Cached(ip) == cache_get(cache, BlockedKey(ip), now).hit
\* The blocked-decision cache has a live entry for ip saying v.
CachedAs(ip, v) ==
    LET g == cache_get(cache, BlockedKey(ip), now) IN g.hit /\ g.value = v

Returned(kind) == ret.kind = kind
Forbidden == ret.resp = "403"

\* C1: a process_request call for an address that begins a blocked-decision
\* TTL (300 s) or more after the address's entry became active, the entry
\* staying active, returns 403 and appends no RequestLog row.
C1_BlockedAfterOneTtl ==
    (Returned("process_request") /\ ret.late /\ ret.live)
        => (Forbidden /\ ~ret.logged)

\* C2: handlers running one at a time, when block_ip returns the cache holds
\* no blocked-decision entry for its address, and the next process_request
\* for the address returns 403.
C2_BlockInvalidatesCache ==
    /\ (Returned("block_ip") /\ ret.resp = "ok") => ~Cached(ret.ip)
    /\ (Returned("process_request") /\ ret.after = "block_ip") => Forbidden

\* C2's case: the request after a block_ip that found a live "not blocked"
\* decision in the cache is refused.
C2_Witness ==
    /\ Returned("process_request") /\ ret.after = "block_ip" /\ Forbidden
    /\ active[ret.ip].stale

\* C3: handlers interleaving, a process_request call that begins after
\* block_ip has returned for its address, the entry staying active, is not
\* admitted on a cached "not blocked" decision.
C3_NoStaleAdmission ==
    (Returned("process_request") /\ ret.fresh /\ ret.live /\ ret.hit) => Forbidden

\* C4: handlers running one at a time, when unblock_ip returns right after
\* block_ip for the same address the cache holds no "blocked" decision for
\* it, and the next process_request for the address is not refused.
C4_BlockThenUnblockAdmits ==
    /\ (Returned("unblock_ip") /\ ret.resp = "ok" /\ ret.after = "block_ip")
          => ~CachedAs(ret.ip, TRUE)
    /\ (Returned("process_request") /\ ret.after = "block_ip;unblock_ip")
          => ~Forbidden

\* C4's case: the request after block_ip then unblock_ip is admitted.
C4_Witness ==
    Returned("process_request") /\ ret.after = "block_ip;unblock_ip" /\ ~Forbidden

\* C5: handlers running one at a time, when auto_block_suspicious_ips
\* returns the cache holds no blocked-decision entry for an address it newly
\* blocked, and the next process_request for that address returns 403.
C5_AutoBlockInvalidatesCache ==
    /\ (Returned("auto_block") /\ ret.resp = "ok")
          => \A ip \in ret.set : ~Cached(ip)
    /\ (Returned("process_request") /\ ret.after = "auto_block") => Forbidden

\* C13: process_request returns 403 or None, and 403 only for an address
\* that had, when the call got its blocked decision, an active BlockedIP
\* entry or had had one in the preceding 300 seconds.
C13_ForbiddenOnlyIfBlocked ==
    Returned("process_request") =>
        /\ ret.resp \in {"403", None}
        /\ Forbidden => ret.oflate

----------------------------------------------------------------------------
(* The auto-escalator and the registry's callers: properties               *)

OneActiveEntry(ip) == Len(BlockedIP[ip]) = 1 /\ BlockedIP[ip][1]

\* C6: handlers running one at a time, a run of auto_block_suspicious_ips
\* leaves every address that had 3 or more unresolved flags of the last 24
\* hours and no active block with exactly one active entry and no unresolved
\* flag, and returns their number; a run right after it blocks nothing and
\* returns 0.
C6_EscalatesEachOnce ==
    Returned("auto_block") =>
        /\ ret.resp = "ok"
        /\ \A ip \in ret.elig :
              OneActiveEntry(ip) /\ UnresolvedOf(SuspiciousIP, ip) = {}
        /\ ret.set = ret.elig
        /\ ret.n = Cardinality(ret.elig)
        /\ ret.second => ret.n = 0

\* C7: no caller's block raises an error, a block that has returned leaves
\* the address active, and no address has two entries.
C7_BlockIsUpsert ==
    /\ \A ip \in Addrs : Len(BlockedIP[ip]) <= 1
    /\ ret.kind \in {"block_ip", "auto_block", "block_selected_ips"}
          => ret.resp = "ok"
    /\ Returned("block_ip") => ActiveExists(BlockedIP, ret.ip)
    /\ Returned("auto_block") => \A ip \in ret.elig : ActiveExists(BlockedIP, ip)

\* C9: runs of auto_block_suspicious_ips interleaving over a table with no
\* entries, no run ends in an error and an address a run found eligible has
\* exactly one entry when the run has returned.
C9_OverlappingRuns ==
    Returned("auto_block") =>
        /\ ret.resp = "ok"
        /\ \A ip \in ret.elig : Len(BlockedIP[ip]) = 1

----------------------------------------------------------------------------
(* The anomaly detector: properties                                        *)

\* Two unresolved flags of one address made by the same rule less than 24
\* hours apart.
DuplicateFlags(i, j) ==
    /\ i < j
    /\ SuspiciousIP[i].ip_address = SuspiciousIP[j].ip_address
    /\ SuspiciousIP[i].rule = SuspiciousIP[j].rule
    /\ ~SuspiciousIP[i].is_resolved /\ ~SuspiciousIP[j].is_resolved
    /\ SuspiciousIP[j].flagged_at - SuspiciousIP[i].flagged_at < DEDUP_WINDOW
    /\ SuspiciousIP[i].flagged_at - SuspiciousIP[j].flagged_at < DEDUP_WINDOW

\* C8: runs of detect_anomalies interleaving over the same log, no address
\* has two unresolved flags made by the same rule within 24 hours of each
\* other.
C8_NoDuplicateFlags ==
    \A i, j \in FlagIds : ~DuplicateFlags(i, j)

\* Every unresolved flag that was inside the 24-hour guard window when the
\* run before the returned one began is still inside it.
NoFlagAgedOut ==
    \A i \in FlagIds :
        (~SuspiciousIP[i].is_resolved
            /\ SuspiciousIP[i].flagged_at >= ret.prev - DEDUP_WINDOW)
        => SuspiciousIP[i].flagged_at >= now - DEDUP_WINDOW

\* C10 as stated: a run of detect_anomalies that began less than an hour
\* after the run before it began, nothing but time having changed in
\* between, returns flagged_count 0.
C10_RerunFlagsNothing ==
    (Returned("detect_anomalies") /\ ret.second) => ret.n = 0

\* C10: a run of detect_anomalies that began less than an hour after the
\* run before it began, nothing but time having changed in between, returns
\* flagged_count 0 provided that no unresolved flag which was inside the
\* 24-hour guard window when the first run began has left it.
C10_RerunFlagsNothingUnlessAged ==
    (Returned("detect_anomalies") /\ ret.second /\ NoFlagAgedOut) => ret.n = 0

\* C10's case: the first run made a flag, time passed with the log still
\* inside the second run's window, and the second run returned 0.
C10_Witness ==
    /\ Returned("detect_anomalies") /\ ret.second /\ NoFlagAgedOut
    /\ ret.n = 0
    /\ ret.prev = StartTime /\ now = StartTime + DetTickStep
    /\ \E i \in FlagIds : SuspiciousIP[i].flagged_at >= ret.prev

\* C11: runs of detect_anomalies following one another, no rule is about to
\* create a flag for an address that had, when the rule's guard was
\* evaluated, an unresolved flag of the same rule flagged in the preceding
\* 24 hours.
C11_GuardHoldsSameRule ==
    \A j \in DetJobs : det[j].pc = "create" => ~det[j].same_rule

\* C11's case: a run has returned in which the login rule's guard found a
\* flag of the login rule for its item and made none.
C11_Witness ==
    Returned("detect_anomalies") /\ "login" \in ret.held

\* The requests of ip that the returned run's query of a rule counted.
Counted(phase, idx, ip) ==
    RequestCount(RequestLog, ret.begun - DETECT_WINDOW, phase, idx, ip)

\* The returned run was the first, over a window with 101 requests of `a`
\* and at most 100 of any other address, no flag older than the run and no
\* active block.
HeavyWindow(a) ==
    /\ Returned("detect_anomalies") /\ ret.prev = -1
    /\ Counted("volume", 0, a) = HIGH_VOLUME_THRESHOLD + 1
    /\ \A b \in Addrs \ {a} : Counted("volume", 0, b) <= HIGH_VOLUME_THRESHOLD
    /\ \A i \in FlagIds : SuspiciousIP[i].flagged_at >= ret.begun
    /\ \A b \in Addrs : ~ActiveExists(BlockedIP, b)

\* No address but `a` is over the threshold of the sensitive-path rule or
\* of the login rule.
OthersQuiet(a) ==
    \A b \in Addrs \ {a} :
        /\ \A idx \in 1..Len(sensitive_paths) :
              Counted("path", idx, b) <= SENSITIVE_PATH_THRESHOLD
        /\ Counted("login", 0, b) <= LOGIN_THRESHOLD

VolumeFlagsOf(a) ==
    {i \in FlagIds : SuspiciousIP[i].ip_address = a /\ SuspiciousIP[i].rule = "volume"}

\* C12 as stated: over a window with 101 requests of one address and at
\* most 100 of any other, no flags and no blocks, the run flags that
\* address and no other, with request_count 101.
C12_FlagsOnlyTheHeavyAddress ==
    \A a \in Addrs : HeavyWindow(a) =>
        /\ {SuspiciousIP[i].ip_address : i \in FlagIds} = {a}
        /\ \A i \in FlagIds : SuspiciousIP[i].request_count = HIGH_VOLUME_THRESHOLD + 1

\* C12: over such a window in which no other address is over the
\* sensitive-path or the login threshold, the run flags that address and no
\* other, and its one volume flag records request_count 101.
C12_FlagsOnlyTheHeavyAddressIfOthersQuiet ==
    \A a \in Addrs : (HeavyWindow(a) /\ OthersQuiet(a)) =>
        /\ {SuspiciousIP[i].ip_address : i \in FlagIds} = {a}
        /\ Cardinality(VolumeFlagsOf(a)) = 1
        /\ \A i \in VolumeFlagsOf(a) :
              SuspiciousIP[i].request_count = HIGH_VOLUME_THRESHOLD + 1

\* C12's case: the run has returned, another address had exactly 100
\* requests in the window, and only the heavy address is flagged.
C12_Witness ==
    /\ HeavyWindow("8.8.8.8") /\ OthersQuiet("8.8.8.8")
    /\ Counted("volume", 0, "192.168.1.9") = HIGH_VOLUME_THRESHOLD
    /\ {SuspiciousIP[i].ip_address : i \in FlagIds} = {"8.8.8.8"}

----------------------------------------------------------------------------
(* Geolocation: properties                                                 *)

\* A request of a public address went past the block decision.
Looked == Returned("process_request") /\ ~Forbidden /\ ret.ip \in PublicAddrs

\* The service was asked and did not answer with a location, or a cache
\* operation of the call failed.
LookupFailed ==
    \/ ret.called /\ ret.outcome # "success"
    \/ ret.fault = "get"
    \/ ret.called /\ ret.fault # "none"

\* The row the request wrote has neither country nor city.
LoggedEmpty ==
    \E row \in BagToSet(RequestLog) :
        /\ row.ip_address = ret.ip
        /\ row.timestamp = now
        /\ row.country = None
        /\ row.city = None

\* C14: whatever the geolocation service and the geolocation cache do,
\* get_geolocation returns (None, None) rather than raising, and
\* process_request admits the request (returns None) and, where its INSERT
\* succeeds, logs it with empty country and city.
C14_LookupNeverRaises ==
    Looked /\ LookupFailed =>
        /\ ~ret.raised
        /\ ret.geo = GeoUnresolved
        /\ ret.resp = None
        /\ ret.write = "ok" => LoggedEmpty

\* C15: when the INSERT of the RequestLog row fails for a request that was
\* not blocked, process_request returns None and raises nothing, and the
\* step leaves the RequestLog table, the BlockedIP table and the address's
\* cached blocked decision as they were.
C15_FailedWriteChangesNothing ==
    [][(ret'.kind = "process_request" /\ ret'.write = "failed") =>
          /\ ret'.resp = None
          /\ ~ret'.raised
          /\ RequestLog' = RequestLog
          /\ BlockedIP' = BlockedIP
          /\ cache'[BlockedKey(ret'.ip)] = cache[BlockedKey(ret'.ip)]]_vars

C15_Witness ==
    /\ Returned("process_request")
    /\ ret.write = "failed"
    /\ ret.resp = None
    /\ ~Cached(ret.ip) \/ CachedAs(ret.ip, FALSE)

\* C16: for an address of 10.0.0.0/8, 172.16.0.0/12 or 192.168.0.0/16, a
\* loopback literal or no address, whatever the cache holds, get_geolocation
\* returns (None, None), does not call the service and begins no operation
\* on the cache.
C16_LocalAddressLeftAlone ==
    (Returned("process_request") /\ ~Forbidden /\ ret.ip \in LocalGeoAddrs) =>
        /\ ret.geo = GeoUnresolved
        /\ ~ret.raised
        /\ ~ret.called
        /\ ret.ops = 0

\* Requests of all these addresses were answered while the cache held
\* entries under their keys.
C16_Witness ==
    /\ Returned("process_request")
    /\ ret.ip = "172.31.255.254"
    /\ ret.write = "ok"
    /\ LoggedEmpty
    /\ cache_get(cache, GeoKey(ret.ip), now).hit
    /\ \A ip \in LocalGeoAddrs : Cached(ip)

\* The call follows a lookup of the same address that asked the service,
\* within the timeout of the entry that lookup stored, and its cache.get
\* works.
WithinLookup ==
    /\ Looked
    /\ ret.fault # "get"
    /\ ret.prior.at >= 0
    /\ now < ret.prior.at + ret.prior.ttl

\* C17: a call of get_geolocation for a public address that follows a
\* lookup of the address, whatever the service answered then, before the
\* entry that lookup stored expires, returns the pair the lookup returned
\* and does not call the service: calls one after another ask the service
\* at most once per timeout.
C17_SecondLookupFromCache ==
    WithinLookup =>
        /\ ~ret.raised
        /\ ret.geo = ret.prior.result
        /\ ~ret.called

\* A request half an hour before the end of a whole-day entry, at a time
\* the service would not have answered.
C17_Witness ==
    /\ WithinLookup
    /\ ret.prior.result = GeoFound
    /\ now = ret.prior.at + GEOLOCATION_CACHE_TIMEOUT - GeoTickStep
    /\ ret.outcome = "timeout"
    /\ ret.geo = GeoFound

\* The service was asked, and the cache worked.
Stored == Looked /\ ret.called /\ ret.fault = "none"

\* C18: get_geolocation stores a location for 86400 seconds; it stores
\* (None, None) for 3600 seconds after a timeout, a transport error, an
\* answer with a status code other than 200 or a malformed body, and for
\* 86400 seconds after a 200 answer with an explicit status other than
\* "success".
C18_TimeoutByOutcome ==
    Stored =>
        /\ cache[GeoKey(ret.ip)].present
        /\ cache[GeoKey(ret.ip)].value = ret.geo
        /\ cache[GeoKey(ret.ip)].exp = now + ret.ttl
        /\ ret.outcome = "success" =>
              ret.geo = GeoFound /\ ret.ttl = GEOLOCATION_CACHE_TIMEOUT
        /\ ret.outcome = "fail_status" =>
              ret.geo = GeoUnresolved /\ ret.ttl = GEOLOCATION_CACHE_TIMEOUT
        /\ ret.outcome \in {"timeout", "error", "non_200", "bad_json", "no_status"} =>
              ret.geo = GeoUnresolved /\ ret.ttl = GEOLOCATION_ERROR_TIMEOUT

----------------------------------------------------------------------------
(* The client address: properties                                          *)

\* The address the request's headers name: the leftmost entry of
\* X-Forwarded-For without the spaces around it, and REMOTE_ADDR where the
\* request has no such header.
NamedClient(META) ==
    IF "HTTP_X_FORWARDED_FOR" \in DOMAIN META
    THEN Join(Strip(FirstEntry(META["HTTP_X_FORWARDED_FOR"])))
    ELSE Join(META["REMOTE_ADDR"])

\* C19: process_request decides on, and logs, the leftmost entry of the
\* request's X-Forwarded-For header, trimmed; it uses REMOTE_ADDR only for
\* a request without the header.
C19_UsesLeftmostForwarded ==
    Returned("process_request") =>
        /\ ret.ip = NamedClient(ret.meta)
        /\ Forbidden => ActiveExists(BlockedIP, NamedClient(ret.meta))
        /\ ret.write = "ok" =>
              \E row \in BagToSet(RequestLog) :
                 /\ row.timestamp = now
                 /\ row.ip_address = NamedClient(ret.meta)

----------------------------------------------------------------------------
(* The log clean-up: properties                                            *)

\* C20: a run of cleanup_old_logs at time T deletes the RequestLog rows
\* with a timestamp before T - 30 days, all of them and no others, and
\* returns how many they were; the rows with a timestamp of T - 30 days or
\* later stay as they were, and so do the BlockedIP and SuspiciousIP tables.
C20_DeletesExactlyTheOld ==
    [][ret'.kind = "cleanup_old_logs" =>
          /\ BagToSet(RequestLog') \subseteq BagToSet(RequestLog)
          /\ \A row \in BagToSet(RequestLog) :
                CopiesIn(row, RequestLog') =
                   IF row.timestamp < now - LOG_RETENTION
                   THEN 0
                   ELSE CopiesIn(row, RequestLog)
          /\ ret'.n = BagCardinality(RequestLog) - BagCardinality(RequestLog')
          /\ BlockedIP' = BlockedIP
          /\ SuspiciousIP' = SuspiciousIP]_vars

\* A run deleted rows and kept a row aged 30 days and one aged 30 days
\* less a second.
C20_Witness ==
    /\ Returned("cleanup_old_logs")
    /\ ret.n >= 2
    /\ now = ret.begun
    /\ BagIn(LogRow(now - LOG_RETENTION), RequestLog)
    /\ BagIn(LogRow(now - LOG_RETENTION + 1), RequestLog)

----------------------------------------------------------------------------
(* Blocked requests: properties                                            *)

\* The step is one of a process_request call that is not admitted by it.
BlockedCallStep ==
    /\ \E w \in Workers : req'[w].pc # req[w].pc
    /\ ret'.kind = "process_request" => ret'.resp = "403"

----------------------------------------------------------------------------
(* Aborted runs of the auto-escalator: properties                          *)

\* C22: when a run of auto_block_suspicious_ips aborts, wherever it is, and
\* the next run completes, every address that met the escalation condition
\* when the aborted run began is actively blocked and has no unresolved
\* flag.
C22_RetryRecovers ==
    (Returned("auto_block") /\ ret.resp = "ok") =>
        \A ip \in ret.owed :
            /\ ActiveExists(BlockedIP, ip)
            /\ UnresolvedOf(SuspiciousIP, ip) = {}

----------------------------------------------------------------------------
(* The detector's rules: properties                                        *)

\* The flags the returned run created.
NewFlags == {i \in FlagIds : i > ret.base}
NewFlagsOf(a) == {i \in NewFlags : SuspiciousIP[i].ip_address = a}

\* In the returned run's window, `a` is over the threshold of a rule.
OverAThreshold(a) ==
    \/ Counted("volume", 0, a) > HIGH_VOLUME_THRESHOLD
    \/ \E idx \in 1..Len(sensitive_paths) :
          Counted("path", idx, a) > SENSITIVE_PATH_THRESHOLD
    \/ Counted("login", 0, a) > LOGIN_THRESHOLD

\* C23: a run of detect_anomalies gives an address that is not actively
\* blocked and has no unresolved flag of the preceding 24 hours a new flag
\* exactly if, in the trailing hour, it has more than 100 requests, or more
\* than 20 under one of the sensitive prefixes, or more than 10 to /login;
\* an actively blocked address gets none, and flagged_count is the number
\* of flags the run created.
C23_FlagsExactlyOverThreshold ==
    Returned("detect_anomalies") =>
        /\ \A a \in ret.clean : (NewFlagsOf(a) # {}) <=> OverAThreshold(a)
        /\ \A a \in Addrs : ActiveExists(BlockedIP, a) => NewFlagsOf(a) = {}
        /\ ret.n = Cardinality(NewFlags)

\* The first run over a window with an address at all three thresholds,
\* which it did not flag, and another over one, which it did.
C23_Witness ==
    /\ Returned("detect_anomalies")
    /\ ret.prev = -1
    /\ ret.clean = {"8.8.8.8", "192.168.1.9", "10.0.0.5"}
    /\ Counted("volume", 0, "8.8.8.8") = HIGH_VOLUME_THRESHOLD
    /\ Counted("path", 1, "8.8.8.8") = SENSITIVE_PATH_THRESHOLD
    /\ Counted("login", 0, "8.8.8.8") = LOGIN_THRESHOLD
    /\ NewFlagsOf("8.8.8.8") = {}
    /\ NewFlagsOf("192.168.1.9") # {}
    /\ ret.n = 1

\* The unresolved flags of ip from the 24 hours up to now.
LiveFlagsOf(ip) ==
    {i \in FlagIds : /\ SuspiciousIP[i].ip_address = ip
                     /\ ~SuspiciousIP[i].is_resolved
                     /\ SuspiciousIP[i].flagged_at >= now - DEDUP_WINDOW}

\* The flag's reason has the word login: the login rule made it, or the
\* sensitive-path rule for the prefix /login.
AboutLogin(i) ==
    \/ SuspiciousIP[i].rule = "login"
    \/ SuspiciousIP[i].rule = "path" /\ SuspiciousIP[i].prefix = LoginPath

\* C24: the login rule holds back for an address exactly if the address
\* has an unresolved flag of the preceding 24 hours whose reason has the
\* word login (a volume flag or a flag for another sensitive prefix does not
\* hold it back); the volume and sensitive-path rules hold back exactly if
\* it has any unresolved flag of the preceding 24 hours.
C24_LoginGuardScope ==
    [][\A j \in DetJobs :
          (det[j].pc = "loop" /\ det'[j].pc = "is_blocked") =>
             (det'[j].recent_flag <=>
                 IF det[j].phase = "login"
                 THEN \E i \in LiveFlagsOf(det'[j].ip) : AboutLogin(i)
                 ELSE LiveFlagsOf(det'[j].ip) # {})]_vars

\* The login rule made a flag for an address that had an unresolved flag
\* of the sensitive-path rule for /admin.
C24_Witness ==
    /\ Returned("detect_anomalies")
    /\ \E i, k \in LiveFlagsOf("8.8.8.8") :
          /\ i < k
          /\ SuspiciousIP[i].rule = "path" /\ ~AboutLogin(i)
          /\ SuspiciousIP[k].rule = "login" /\ k > ret.base

----------------------------------------------------------------------------
(* The pipeline: properties                                                *)

\* The unresolved flags of the address of flag i that were flagged in the
\* 24 hours up to flag i.
WindowUpTo(i) ==
    {k \in FlagIds : /\ SuspiciousIP[k].ip_address = SuspiciousIP[i].ip_address
                     /\ ~SuspiciousIP[k].is_resolved
                     /\ SuspiciousIP[k].flagged_at <= SuspiciousIP[i].flagged_at
                     /\ SuspiciousIP[k].flagged_at >=
                           SuspiciousIP[i].flagged_at - AUTO_BLOCK_WINDOW}

\* C25: with nothing but request logging and runs of detect_anomalies and
\* auto_block_suspicious_ips, one at a time, no address has 3 unresolved
\* flags within 24 hours (at most one of the volume and sensitive-path
\* rules and one of the login rule), no run of auto_block_suspicious_ips
\* has an address to block, no BlockedIP entry is created and every such
\* run returns 0.
C25_PipelineNeverEscalates ==
    /\ \A i \in FlagIds :
          /\ Cardinality(WindowUpTo(i)) < AUTO_BLOCK_MIN_FLAGS
          /\ Cardinality({k \in WindowUpTo(i) : SuspiciousIP[k].rule = "login"}) <= 1
          /\ Cardinality({k \in WindowUpTo(i) : SuspiciousIP[k].rule # "login"}) <= 1
    /\ \A j \in AutoJobs : auto[j].items = {}
    /\ \A ip \in Addrs : BlockedIP[ip] = <<>>
    /\ Returned("auto_block") => ret.resp = "ok" /\ ret.n = 0

\* A run of auto_block_suspicious_ips returned 0 with two unresolved flags
\* of an address in its window and two older ones.
C25_Witness ==
    /\ Returned("auto_block")
    /\ ret.n = 0
    /\ Cardinality(LiveFlagsOf("8.8.8.8")) = 2
    /\ Cardinality({i \in FlagIds : SuspiciousIP[i].ip_address = "8.8.8.8"}) >= 4

----------------------------------------------------------------------------
(* One run of the detector: the flags of an address                        *)

NewFlagsBy(a, rule) == {i \in NewFlagsOf(a) : SuspiciousIP[i].rule = rule}

\* The sensitive prefixes under which the returned run counted more than
\* 20 requests of the address.
PrefixesOver(a) ==
    {idx \in 1..Len(sensitive_paths) :
        Counted("path", idx, a) > SENSITIVE_PATH_THRESHOLD}

\* The run's flags of the sensitive-path rule for the address are for no
\* prefix but the first it is over the threshold on.
OnlyFirstPrefix(a) ==
    \A i \in NewFlagsBy(a, "path") :
        \E k \in PrefixesOver(a) :
            /\ SuspiciousIP[i].prefix = sensitive_paths[k]
            /\ \A m \in PrefixesOver(a) : k <= m

\* At most two new flags, none of the sensitive-path rule after one of the
\* volume rule, at most one of the sensitive-path rule, none of the login
\* rule after one for the /login prefix.
AtMostTwoNew(a) ==
    /\ Cardinality(NewFlagsOf(a)) <= 2
    /\ NewFlagsBy(a, "volume") # {} => NewFlagsBy(a, "path") = {}
    /\ Cardinality(NewFlagsBy(a, "path")) <= 1
    /\ (\E i \in NewFlagsBy(a, "path") : SuspiciousIP[i].prefix = LoginPath)
          => NewFlagsBy(a, "login") = {}

\* An unresolved flag of the address, older than the run, was within the
\* guard's 24 hours when the run began and is not when it returns.
AgedOutInRun(a) ==
    \E i \in FlagIds \ NewFlags :
        /\ SuspiciousIP[i].ip_address = a
        /\ ~SuspiciousIP[i].is_resolved
        /\ SuspiciousIP[i].flagged_at >= ret.begun - DEDUP_WINDOW
        /\ SuspiciousIP[i].flagged_at < now - DEDUP_WINDOW

\* C26 as stated: in one run of detect_anomalies an address gets at most
\* two new flags: none of the sensitive-path rule after one of the volume
\* rule, one for only the first prefix it is over the threshold on, none of
\* the login rule after one for the /login prefix.
C26_TwoFlagsFirstPrefix ==
    Returned("detect_anomalies") =>
        \A a \in Addrs : AtMostTwoNew(a) /\ OnlyFirstPrefix(a)

\* C26, amended: the flag of the sensitive-path rule is for the first
\* prefix over the threshold unless an older flag of the address left the
\* guard's 24 hours while the run went on; the rest holds as stated.
C26_TwoFlagsFirstPrefixUnlessAged ==
    Returned("detect_anomalies") =>
        \A a \in Addrs : /\ AtMostTwoNew(a)
                         /\ ~AgedOutInRun(a) => OnlyFirstPrefix(a)

\* A run returned that found 8.8.8.8 over the threshold on /admin and /api
\* and flagged it for /admin only; none of its older flags aged out.
C26_Witness ==
    /\ Returned("detect_anomalies")
    /\ PrefixesOver("8.8.8.8") = {1, 4}
    /\ ~AgedOutInRun("8.8.8.8")
    /\ \E i \in NewFlagsOf("8.8.8.8") :
          /\ NewFlagsOf("8.8.8.8") = {i}
          /\ SuspiciousIP[i].prefix = AdminPath

====
